---- MODULE Spec2Model ----
(***************************************************************************)
(* Model of the Sanskrit Q&A generator backend:                            *)
(*   generate_api.py  fan-out generation (generate_for_row and helpers)    *)
(*   storage.py       CSVStorage, the table store                          *)
(*   app.py           the batch orchestrators and the save endpoints       *)
(*                                                                         *)
(* SpecGen       one call of generate_for_row, step by step.               *)
(* SpecBatch     one batch over the table files (SpecBatchFair: scheduled  *)
(*               until it ends; SpecBatchSave: with rows saved meanwhile). *)
(* SpecStore     one CSVStorage instance at work on a table file.          *)
(* SpecStore2    two CSVStorage instances at work on the same file.        *)
(* SpecSave      the requests that save the results of a batch.            *)
(***************************************************************************)
EXTENDS Integers, Sequences, FiniteSets, TLC

VARIABLES
  \* ---- one call of generate_for_row (generate_api.py) ----
  g_pc,        \* "idle" | "health" | "running" | "returned" | "raised"
  g_n,         \* the requested n
  g_att,       \* attempt id -> [st, tries, out, last_err]: the n futures
  g_results,   \* the accumulator dict `results`
  g_collected, \* the attempt ids as_completed has yielded so far
  g_healthy,   \* what _check_server_health returned
  g_requests,  \* number of POST /api/generate requests sent so far
  g_out,       \* the returned dict (when g_pc = "returned")
  \* ---- the table files and one batch process (storage.py, app.py) ----
  disk,        \* file id -> table held by the CSV file
  status,      \* the batch's overall status ("none" before any batch)
  variant,     \* "batch" (process_files_batch) | "detailed"
  file_ids,    \* valid_file_ids handed to the background task
  qa_count,    \* req.qa_count
  b_pc,        \* position of the background task
  file_idx,    \* index into file_ids of the file being processed (1-based)
  row_idx,     \* next row index of the current file (0-based)
  storage,     \* the task's CSVStorage instance: its in-memory table
  results,     \* the local list `results` of the current file
  st_results,  \* status.results: file id -> list of result items
  progress,    \* status.progress / status.file_progress: file id -> record
  current_file,    \* status.current_file
  error_message,   \* status.error_message / "Error: ..." operation text
  processed_files, \* status.processed_files
  processed_count, \* file id -> file_registry[file_id].processed_count
  registry,    \* the file ids that are keys of file_registry
  \* ---- history (not program state) ----
  h_submit,    \* the last submission to generate_for_row, or NoSubmit
  h_event,     \* what the last batch step did to its row
  h_unavailable, \* some row of the batch met a failed health check
  h_atstart,   \* the tables as they were when the batch was started
  h_save,      \* the last batch save request and its response
  n_saves,     \* rows saved so far
  \* ---- one table file and the CSVStorage instances over it (storage.py) ----
  fs_path,     \* path ("csv": csv_path, "tmp": csv_path + ".tmp") -> inode, 0 = absent
  fs_data,     \* inode -> the content of the file
  stores,      \* instance -> [pc, op, df, fd, pos]: a CSVStorage and its operation
  n_ops,       \* operations begun so far
  h_op,        \* the last operation begun on a store
  h_written,   \* the complete contents the writers have set out to write
  h_upd,       \* instance -> the last update_row_with_qas called on it
  shared,      \* TRUE: the entries of `stores` are threads that use one
               \* CSVStorage instance (one table, one lock)
  \* ---- one response text handed to the ResponseParser (generate_api.py) ----
  p_pc,        \* "text" | "scan" | "extracted" | "repaired" | "parsed" | "validated"
  p_call,      \* who runs the scan: "extract" | "parse"
  p_i,         \* the position of the loop of _extract_first_json
  p_st,        \* its depth, in_string and escape
  p_text,      \* the response text
  h_parts,     \* how the text was put together (not program state)
  p_found,     \* what _extract_first_json returned
  p_dict,      \* what _repair_incomplete_json / _try_parse_response returned
  p_n,         \* the n given to _validate_output
  p_out        \* the outcome of _validate_output

gvars == <<g_pc, g_n, g_healthy, g_att, g_results, g_collected, g_requests, g_out>>
bvars == <<disk, status, variant, file_ids, qa_count, b_pc, file_idx, row_idx,
           storage, results, st_results, progress, current_file, error_message,
           processed_files, processed_count, h_submit, h_event,
           h_unavailable, h_atstart, h_save, n_saves>>
svars == <<fs_path, fs_data, stores, n_ops, h_op, h_written, h_upd>>
pvars == <<p_pc, p_call, p_i, p_st, p_text, h_parts, p_found, p_dict, p_n, p_out>>
xvars == <<pvars, shared, registry>>
vars == <<gvars, bvars, svars, xvars>>

----------------------------------------------------------------------------
\* Bounds of the model
MaxN == 3
MaxQa == 2
MaxRows == 2
MaxSaves == 1
MaxOps == 2
MaxFail == 2
NInodes == 4

\* generate_api.py:25  MAX_RETRIES = int(os.getenv("GEN_MAX_RETRIES", "3"))
MAX_RETRIES == 3

\* generate_api.py:26  RETRY_BACKOFF = float(os.getenv("GEN_RETRY_BACKOFF", "1.0")),
\* in seconds
RETRY_BACKOFF == 1

----------------------------------------------------------------------------
\* Python values

\* The six keys, in the order of the list `required` (generate_api.py:170);
\* the same keys initialise `results` in generate_for_row.
required == <<"q_en", "a_en", "q_hi", "a_hi", "q_sa", "a_sa">>

Keys == {required[i] : i \in 1..Len(required)}

\* A dict value: a list of strings, or something that is not a list.
List(items) == [list |-> TRUE, items |-> items]

NotAList == [list |-> FALSE, items |-> <<>>]

\* The text an attempt produces; "" is the empty string.
Txt == <<"t1", "t2", "t3", "t4", "t5">>

TruncateNothing(items, n) == items

\* j[k][:n]  (generate_api.py:180); a negative n counts from the end
Truncate(items, n) == SubSeq(items, 1, IF n >= 0 THEN n ELSE Len(items) + n)

PadNothing(items, n) == items

\* while len(j[k]) < n: j[k].append("")  (generate_api.py:184-185)
Pad(items, n) == items \o [i \in 1..(n - Len(items)) |-> ""]

\* The length correction of one key (generate_api.py:176-185)
FixArity(items, n) ==
  IF Len(items) = n THEN items
  ELSE IF Len(items) > n THEN Truncate(items, n)
  ELSE Pad(items, n)

InvalidIfMissing(j, k) == k \notin DOMAIN j

\* if k not in j: raise ...; if not isinstance(j[k], list): raise ...
\* (generate_api.py:171-175)
Invalid(j, k) == k \notin DOMAIN j \/ ~ j[k].list

RaisesIfShort(j, n) ==
  [raised |-> \E k \in Keys : k \notin DOMAIN j \/ Len(j[k].items) < n,
   val |-> j]

\* _validate_output: raises ValueError at the first required key that is
\* missing or not a list; otherwise every required key is cut or padded to n.
_validate_output(j, n) ==
  IF \E i \in 1..Len(required) : Invalid(j, required[i])
  THEN [raised |-> TRUE, val |-> j]
  ELSE [raised |-> FALSE,
        val |-> [k \in DOMAIN j |->
                   IF k \in Keys THEN List(FixArity(j[k].items, n)) ELSE j[k]]]

\* results = {"q_en": [], ...}  (generate_api.py:306-310)
EmptyResults == [k \in Keys |-> List(<<>>)]

ExtendNothing(acc, result) == acc

ExtendMisaligned(acc, result) ==
  [k \in Keys |-> IF k = "q_en" THEN List(result[k].items \o acc[k].items)
                  ELSE List(acc[k].items \o result[k].items)]

\* for key in results.keys(): results[key].extend(result[key])
\* (generate_api.py:318-319)
Extend(acc, result) ==
  [k \in Keys |-> List(acc[k].items \o result[k].items)]

----------------------------------------------------------------------------
\* The generation service's answers to one POST /api/generate.  A request
\* fails with "transport" (requests.post or raise_for_status raises), with
\* "parse" (nothing decodable, or the empty object) or with "validate"
\* (_validate_output raises).

\* A decoded object with the six keys, each a list of `len` copies of text t.
Full(t, len) == [k \in Keys |-> List([p \in 1..len |-> t])]

\* What _try_parse_response can hand back for attempt i: None, or a dict.
NoDict == [none |-> TRUE, val |-> <<>>]

Dict(d) == [none |-> FALSE, val |-> d]

Parsed(i) ==
  { NoDict,                                    \* nothing decodable
    Dict(<<>>),                                \* the empty object {}
    Dict(Full(Txt[i], 1)),                     \* the asked-for shape
    Dict(Full(Txt[i], 0)),                     \* empty lists
    Dict(Full(Txt[i], 2)),                     \* too many items
    Dict([k \in Keys \ {"a_sa"} |-> List(<<Txt[i]>>)]),          \* key missing
    Dict([Full(Txt[i], 1) EXCEPT !["q_hi"] = NotAList]) }        \* not a list

\* One HTTP round trip: the transport or status fails, or a body comes back.
Responses(i) ==
  {[http |-> FALSE, parsed |-> NoDict]} \cup
  {[http |-> TRUE, parsed |-> p] : p \in Parsed(i)}

\* One iteration of the retry loop of _generate_single_qa
\* (generate_api.py:282-296): the dict returned, or the failure.
TryOnce(resp) ==
  IF ~ resp.http THEN [ok |-> FALSE, val |-> <<>>, err |-> "transport"]
  ELSE IF resp.parsed.none \/ DOMAIN resp.parsed.val = {}
       THEN [ok |-> FALSE, val |-> <<>>, err |-> "parse"]
  ELSE LET v == _validate_output(resp.parsed.val, 1)
       IN IF v.raised THEN [ok |-> FALSE, val |-> <<>>, err |-> "validate"]
          ELSE [ok |-> TRUE, val |-> v.val, err |-> ""]

----------------------------------------------------------------------------
\* The ResponseParser on text.  A text is a sequence of characters; a run of
\* letters that holds none of the characters below counts as one character
\* ("q_en", "t1", "x").

Quote == "\""

Backslash == "\\"

Newline == "\n"

Space == " "

Digit == "1"

\* str.count of the characters in `chars`
Count(s, chars) == Cardinality({i \in DOMAIN s : s[i] \in chars})

\* s.find(c), 1-based; 0 when absent
Find(s, c) ==
  IF \E i \in DOMAIN s : s[i] = c
  THEN CHOOSE i \in DOMAIN s : s[i] = c /\ \A m \in 1..(i - 1) : s[m] # c
  ELSE 0

Repeat(c, k) == [i \in 1..k |-> c]

\* Optional[str]
NoText == [none |-> TRUE, text |-> <<>>]

Text(t) == [none |-> FALSE, text |-> t]

\* The values json.loads decodes to
JStr(chars) == [t |-> "str", s |-> chars, items |-> <<>>, members |-> <<>>]

JNum == [t |-> "num", s |-> <<>>, items |-> <<>>, members |-> <<>>]

JArr(items) == [t |-> "arr", s |-> <<>>, items |-> items, members |-> <<>>]

JObj(members) == [t |-> "obj", s |-> <<>>, items |-> <<>>, members |-> members]

\* json.JSONDecodeError
Undecodable == [ok |-> FALSE, nxt |-> 0, val |-> JNum]

Decoded(nxt, val) == [ok |-> TRUE, nxt |-> nxt, val |-> val]

\* JSON whitespace
Ws == {Space, Newline}

\* The first position from i on that holds no whitespace (Len(t) + 1: none)
SkipWs(t, i) ==
  CHOOSE j \in i..(Len(t) + 1) :
    /\ \A m \in i..(j - 1) : t[m] \in Ws
    /\ j = Len(t) + 1 \/ t[j] \notin Ws

\* A JSON string from behind its opening quote: up to the closing quote; a
\* backslash must be followed by a quote or a backslash (the escapes of this
\* alphabet), a raw line break is refused.
StrStep(t, j) ==
  IF t[j] = Quote THEN "end"
  ELSE IF t[j] = Backslash
       THEN IF j + 1 <= Len(t) /\ t[j + 1] \in {Quote, Backslash}
            THEN "escape" ELSE "bad"
  ELSE IF t[j] = Newline THEN "bad"
  ELSE "char"

RECURSIVE StrScan(_, _, _)
StrScan(t, j, acc) ==
  CASE j > Len(t) -> Undecodable
    [] j <= Len(t) /\ StrStep(t, j) = "bad" -> Undecodable
    [] j <= Len(t) /\ StrStep(t, j) = "end" -> Decoded(j + 1, JStr(acc))
    [] OTHER ->
         CHOOSE r \in {StrScan(t, n[1], n[2]) :
                         n \in {IF StrStep(t, j) = "escape"
                                THEN <<j + 2, Append(acc, t[j + 1])>>
                                ELSE <<j + 1, Append(acc, t[j])>>}} : TRUE

\* The JSON grammar: value, the members of an object, the items of an array
RECURSIVE ParseValue(_, _)
RECURSIVE ParseMembers(_, _, _)
RECURSIVE AfterKey(_, _, _)
RECURSIVE AfterMember(_, _, _, _)
RECURSIVE ParseItems(_, _, _)
RECURSIVE AfterItem(_, _, _)

ParseValue(t, i) ==
  LET j == SkipWs(t, i)
  IN IF j > Len(t) THEN Undecodable
     ELSE IF t[j] = "{"
          THEN IF SkipWs(t, j + 1) <= Len(t) /\ t[SkipWs(t, j + 1)] = "}"
               THEN Decoded(SkipWs(t, j + 1) + 1, JObj(<<>>))
               ELSE ParseMembers(t, j + 1, <<>>)
     ELSE IF t[j] = "["
          THEN IF SkipWs(t, j + 1) <= Len(t) /\ t[SkipWs(t, j + 1)] = "]"
               THEN Decoded(SkipWs(t, j + 1) + 1, JArr(<<>>))
               ELSE ParseItems(t, j + 1, <<>>)
     ELSE IF t[j] = Quote THEN StrScan(t, j + 1, <<>>)
     ELSE IF t[j] = Digit THEN Decoded(j + 1, JNum)
     ELSE Undecodable

ParseMembers(t, i, acc) ==
  LET j == SkipWs(t, i)
  IN IF j > Len(t) \/ t[j] # Quote THEN Undecodable
     ELSE CHOOSE r \in {AfterKey(t, k, acc) :
                          k \in {StrScan(t, j + 1, <<>>)}} : TRUE

AfterKey(t, k, acc) ==
  IF ~ k.ok THEN Undecodable
  ELSE LET c == SkipWs(t, k.nxt)
       IN IF c > Len(t) \/ t[c] # ":" THEN Undecodable
          ELSE CHOOSE r \in {AfterMember(t, k, v, acc) :
                               v \in {ParseValue(t, c + 1)}} : TRUE

AfterMember(t, k, v, acc) ==
  IF ~ v.ok THEN Undecodable
  ELSE LET d == SkipWs(t, v.nxt)
           members == Append(acc, [k |-> k.val.s, v |-> v.val])
       IN IF d > Len(t) THEN Undecodable
          ELSE IF t[d] = ","
               THEN CHOOSE r \in {ParseMembers(t, d + 1, a) :
                                    a \in {members}} : TRUE
          ELSE IF t[d] = "}" THEN Decoded(d + 1, JObj(members))
          ELSE Undecodable

ParseItems(t, i, acc) ==
  CHOOSE r \in {AfterItem(t, v, acc) : v \in {ParseValue(t, i)}} : TRUE

AfterItem(t, v, acc) ==
  IF ~ v.ok THEN Undecodable
  ELSE LET d == SkipWs(t, v.nxt)
           items == Append(acc, v.val)
       IN IF d > Len(t) THEN Undecodable
          ELSE IF t[d] = ","
               THEN CHOOSE r \in {ParseItems(t, d + 1, a) :
                                    a \in {items}} : TRUE
          ELSE IF t[d] = "]" THEN Decoded(d + 1, JArr(items))
          ELSE Undecodable

\* json.loads: one value, whitespace around it, nothing else
json_loads(t) ==
  CHOOSE r \in {IF v.ok /\ SkipWs(t, v.nxt) > Len(t) THEN v ELSE Undecodable :
                 v \in {ParseValue(t, 1)}} : TRUE

\* A string of one character is that character, the empty string is "".
Chars(cs) == IF Len(cs) = 0 THEN "" ELSE IF Len(cs) = 1 THEN cs[1] ELSE "other"

\* A list item as the validator sees it
ItemOf(v) == IF v.t = "str" THEN Chars(v.s) ELSE v.t

\* The dict of a decoded object: the last member of a key wins
DictOf(obj) ==
  [k \in {Chars(obj.members[m].k) : m \in DOMAIN obj.members} |->
     LET m == CHOOSE m \in DOMAIN obj.members :
                /\ Chars(obj.members[m].k) = k
                /\ \A m2 \in DOMAIN obj.members :
                     Chars(obj.members[m2].k) = k => m2 <= m
         v == obj.members[m].v
     IN IF v.t = "arr" THEN List([p \in DOMAIN v.items |-> ItemOf(v.items[p])])
        ELSE NotAList]

\* try: parsed = json.loads(text); if isinstance(parsed, dict): return parsed
\* (generate_api.py:113-117, 212-216, 223-227)
LoadsDict(t) ==
  CHOOSE r \in {IF d.ok /\ d.val.t = "obj" THEN Dict(DictOf(d.val)) ELSE NoDict :
                 d \in {json_loads(t)}} : TRUE

\* open_braces - close_braces  (generate_api.py:102-110)
Imbalance(s) == Count(s, {"{"}) + Count(s, {"["}) - Count(s, {"}"}) - Count(s, {"]"})

\* repaired = json_str + '}' * missing_braces + ']' * (missing_braces // 2)
\* (generate_api.py:110-111)
Repaired(s) ==
  s \o Repeat("}", Imbalance(s)) \o Repeat("]", Imbalance(s) \div 2)

\* _repair_incomplete_json (generate_api.py:97-121)
_repair_incomplete_json(s) ==
  IF Imbalance(s) > 0 THEN LoadsDict(Repaired(s)) ELSE NoDict

OpensAnywhere(c, in_string) == c \in {"{", "["}

\* if not in_string: if c == '{' or c == '[': depth += 1
\* (generate_api.py:151-153)
Opens(c, in_string) == ~ in_string /\ c \in {"{", "["}

\* elif c == '}' or c == ']': depth -= 1  (generate_api.py:154-155)
Closes(c, in_string) == ~ in_string /\ c \in {"}", "]"}

\* One character in the loop of _extract_first_json (generate_api.py:137-155):
\* the depth, in_string and escape after it
ScanStep(c, st) ==
  IF st.escape THEN [st EXCEPT !.escape = FALSE]
  ELSE IF c = Backslash THEN [st EXCEPT !.escape = TRUE]
  ELSE IF c = Quote THEN [st EXCEPT !.in_string = ~ st.in_string]
  ELSE IF Opens(c, st.in_string) THEN [st EXCEPT !.depth = st.depth + 1]
  ELSE IF Closes(c, st.in_string) THEN [st EXCEPT !.depth = st.depth - 1]
  ELSE st

\* if depth == 0: return s[start:i+1], reached only behind depth -= 1
\* (generate_api.py:154-159)
ScanReturns(c, st) ==
  /\ ~ st.escape
  /\ c \notin {Backslash, Quote}
  /\ ~ Opens(c, st.in_string)
  /\ Closes(c, st.in_string)
  /\ st.depth - 1 = 0

\* depth = 0; in_string = False; escape = False  (generate_api.py:132-134)
ScanStart == [depth |-> 0, in_string |-> FALSE, escape |-> FALSE]

\* The positions at which a line of the text begins (resp_text.split('\n'))
LineStarts(t) == {1} \cup {i + 1 : i \in {m \in DOMAIN t : t[m] = Newline}}

\* line.strip().startswith('{') for the line that begins at position b
StartsObject(t, b) ==
  \E i \in b..Len(t) :
    /\ t[i] = "{"
    /\ \A m \in b..(i - 1) : t[m] = Space

\* cleaned_text: the text from the first line that starts an object on
\* (generate_api.py:198-210)
Cleaned(t) ==
  IF \E b \in LineStarts(t) : StartsObject(t, b)
  THEN LET b == CHOOSE b \in LineStarts(t) :
                  /\ StartsObject(t, b)
                  /\ \A c \in LineStarts(t) : StartsObject(t, c) => b <= c
       IN SubSeq(t, b, Len(t))
  ELSE t

\* not resp_text or not resp_text.strip()  (generate_api.py:193)
Blank(t) == \A i \in DOMAIN t : t[i] \in Ws

\* The second and third attempt of _try_parse_response on the cleaned text
\* c, given the span `found` that _extract_first_json returned
\* (generate_api.py:220-237): the decoded span, or the repaired text (an
\* empty repaired object counts as nothing)
AfterExtract(c, found) ==
  CHOOSE r \in
    {IF ~ span.none THEN span
     ELSE IF ~ repaired.none /\ DOMAIN repaired.val # {} THEN repaired
     ELSE NoDict :
       span \in {IF found.none THEN NoDict ELSE LoadsDict(found.text)},
       repaired \in {_repair_incomplete_json(c)}} : TRUE

----------------------------------------------------------------------------
\* generate_for_row, step by step

NoAttempts == <<>>

RaisesNever(healthy, n) == FALSE

\* generate_for_row raises before dispatching anything: RuntimeError when the
\* health check fails (generate_api.py:302-303), ValueError from
\* ThreadPoolExecutor(max_workers=n) when n <= 0 (generate_api.py:312).
RaisesAtStart(healthy, n) == ~ healthy \/ n <= 0

\* The call: health check, then n futures submitted (generate_api.py:299-313)
GStart(n, healthy) ==
  /\ g_pc = "idle"
  /\ g_n' = n
  /\ g_healthy' = healthy
  /\ g_results' = EmptyResults
  /\ g_collected' = {}
  /\ g_requests' = 0
  /\ g_out' = <<>>
  /\ IF RaisesAtStart(healthy, n)
     THEN /\ g_pc' = "raised"
          /\ g_att' = NoAttempts
     ELSE /\ g_pc' = "running"
          /\ g_att' = [i \in 1..n |-> [st |-> "running", tries |-> 0,
                                        out |-> <<>>, last_err |-> "",
                                        slept |-> 0]]
  /\ UNCHANGED <<bvars, svars, xvars>>

ExhaustedLate(attempt) == attempt >= MAX_RETRIES + 1

\* for attempt in range(1, MAX_RETRIES + 1): `attempt` was the last one
\* (generate_api.py:281)
Exhausted(attempt) == attempt >= MAX_RETRIES

BackoffFlat(attempt) == RETRY_BACKOFF

\* time.sleep(RETRY_BACKOFF * (2 ** (attempt - 1)))  (generate_api.py:295)
Backoff(attempt) == RETRY_BACKOFF * 2 ^ (attempt - 1)

\* One request of attempt i (one iteration of the loop in _generate_single_qa,
\* generate_api.py:281-297): the parsed dict is returned, or last_err is set,
\* the thread sleeps and the loop goes on; after the last iteration last_err
\* is raised.  `slept` is the time the attempt has slept so far.
GRequest(i, resp) ==
  /\ g_pc = "running"
  /\ i \in DOMAIN g_att
  /\ g_att[i].st = "running"
  /\ g_requests' = g_requests + 1
  /\ LET r == TryOnce(resp)
         t == g_att[i].tries + 1
     IN g_att' = [g_att EXCEPT ![i] =
          IF r.ok
          THEN [st |-> "ok", tries |-> t, out |-> r.val, last_err |-> "",
                slept |-> g_att[i].slept]
          ELSE IF ~ Exhausted(t)
          THEN [st |-> "running", tries |-> t, out |-> <<>>, last_err |-> r.err,
                slept |-> g_att[i].slept + Backoff(t)]
          ELSE [st |-> "failed", tries |-> t, out |-> <<>>, last_err |-> r.err,
                slept |-> g_att[i].slept]]
  /\ UNCHANGED <<g_pc, g_n, g_healthy, g_results, g_collected, g_out, bvars, svars, xvars>>

\* as_completed yields the settled future i (generate_api.py:315-323)
GCollect(i) ==
  /\ g_pc = "running"
  /\ i \in DOMAIN g_att
  /\ i \notin g_collected
  /\ g_att[i].st \in {"ok", "failed"}
  /\ g_collected' = g_collected \cup {i}
  /\ g_results' = IF g_att[i].st = "ok" THEN Extend(g_results, g_att[i].out)
                  ELSE g_results
  /\ UNCHANGED <<g_pc, g_n, g_healthy, g_att, g_requests, g_out, bvars, svars, xvars>>

SomeYielded == g_collected # {}

\* The as_completed loop has ended and the executor's with-block is left:
\* every submitted future has settled and was yielded (generate_api.py:312-323)
AllYielded == g_collected = DOMAIN g_att

\* Every future was yielded: final validation and return
\* (generate_api.py:325-328)
GReturn ==
  /\ g_pc = "running"
  /\ AllYielded
  /\ LET v == _validate_output(g_results, g_n)
     IN IF v.raised
        THEN g_pc' = "raised" /\ g_out' = <<>>
        ELSE g_pc' = "returned" /\ g_out' = v.val
  /\ UNCHANGED <<g_n, g_healthy, g_att, g_results, g_collected, g_requests, bvars, svars, xvars>>

GNext ==
  \/ \E n \in 0..MaxN, healthy \in BOOLEAN : GStart(n, healthy)
  \/ \E i \in 1..MaxN : \E resp \in Responses(i) : GRequest(i, resp)
  \/ \E i \in 1..MaxN : GCollect(i)
  \/ GReturn

----------------------------------------------------------------------------
\* generate_for_row as one call, for the callers in app.py

RECURSIVE Merge(_, _)
\* The as_completed loop over the settled attempts `outs`, taken in the
\* order they completed; position p and later (generate_api.py:315-323).
Merge(outs, p) ==
  IF p > Len(outs) THEN EmptyResults
  ELSE LET rest == Merge(outs, p + 1)
       IN IF outs[p].ok
          THEN [k \in Keys |-> List(outs[p].val[k].items \o rest[k].items)]
          ELSE rest

\* generate_for_row(sanskrit, english, n=n): the exception, or the dict.
generate_for_row(n, healthy, outs) ==
  IF RaisesAtStart(healthy, n)
  THEN [raised |-> TRUE, val |-> <<>>,
        exc |-> IF ~ healthy THEN "RuntimeError" ELSE "ValueError"]
  ELSE LET v == _validate_output(Merge(outs, 1), n)
       IN [raised |-> v.raised, val |-> v.val, exc |-> "ValueError"]

\* The settled attempts of one call of n attempts of which m failed: the
\* successful ones each carry one item per key.
Settled(n, m) ==
  [p \in 1..n |-> IF p <= n - m THEN TryOnce([http |-> TRUE,
                                              parsed |-> Dict(Full(Txt[p], 1))])
                  ELSE [ok |-> FALSE, val |-> <<>>, err |-> "parse"]]

----------------------------------------------------------------------------
\* storage.py: CSVStorage over one table

Files == {"f1", "f2"}

\* file_registry[file_id].filename: upload_csv accepts only names ending in
\* ".csv" (app.py:145), startup takes the file's own name (app.py:118).
Filename(f) == IF f = "f1" THEN "f1.csv" ELSE "f2.csv"

\* A cell pandas holds as a number, not as a string (a cell of a chunk of the
\* column that read_csv inferred to be numeric).
NumCell == "42"

IsStr(v) == v # NumCell

\* The QA slot column f"{key}_{i}"
Col(key, i) == <<key, i>>

\* col.startswith(('q_en_', 'q_hi_', 'q_sa_'))  (storage.py:126)
IsQuestionCol(c) == c[1] \in {"q_en", "q_hi", "q_sa"}

\* str(row[col]).strip() is non-empty
NonBlank(v) == v # "" /\ v # " "

\* CSVStorage.row_count
row_count(df) == Len(df.rows)

\* CSVStorage.get_row (idx is 0-based)
get_row(df, idx) == df.rows[idx + 1]

\* CSVStorage.has_existing_qa_data (storage.py:119-132)
has_existing_qa_data(df, idx) ==
  IF idx < 0 \/ idx >= Len(df.rows) THEN FALSE
  ELSE \E c \in df.cols :
         /\ IsQuestionCol(c)
         /\ NonBlank(df.rows[idx + 1].qa[c])

\* A scalar string as a dict value
Str(s) == [list |-> FALSE, items |-> <<s>>]

\* The slot columns a payload writes: f"{key}_{i}" for every item i of every
\* list-valued key that starts with q_ or a_  (storage.py:91-97)
PayloadCols(payload) ==
  UNION {{Col(k, i) : i \in 1..Len(payload[k].items)} :
           k \in {x \in (DOMAIN payload) \cap Keys : payload[x].list}}

OutOfRangeNever(df, idx) == FALSE

\* if idx < 0 or idx >= len(self.df)  (storage.py:76)
OutOfRange(df, idx) == idx < 0 \/ idx >= Len(df.rows)

\* The Python str "42", as against the number 42 (NumCell)
NumText == "'42'"

\* str(item)  (storage.py:98)
PyStr(v) == IF v = NumCell THEN NumText ELSE v

\* CSVStorage.update_row_with_qas (storage.py:74-101): the returned flag and
\* the table that is in memory afterwards; it is then written to the file.
update_row_with_qas(df, idx, payload) ==
  IF OutOfRange(df, idx) THEN [ok |-> FALSE, df |-> df]
  ELSE
    LET newcols == df.cols \cup PayloadCols(payload)
        widen(r) == [r EXCEPT !.qa = [c \in newcols |->
                       IF c \in df.cols THEN r.qa[c] ELSE ""]]
        written(r) == [r EXCEPT
           !.tags = IF "tags" \in DOMAIN payload
                    THEN payload["tags"].items[1] ELSE r.tags,
           !.qa = [c \in newcols |->
                     IF c \in PayloadCols(payload)
                     THEN PyStr(payload[c[1]].items[c[2]]) ELSE ""]]
    IN [ok |-> TRUE,
        df |-> [cols |-> newcols,
                rows |-> [i \in 1..Len(df.rows) |->
                            IF i = idx + 1 THEN written(df.rows[i])
                            ELSE widen(df.rows[i])]]]

\* CSVStorage.headers_for_qa_count: the slot columns among the headers
headers_for_qa_count(n) == {Col(k, i) : k \in Keys, i \in 1..n}

\* CSVStorage.ensure_headers (storage.py:108-113): the table in memory after
\* the missing columns were added; it is then written to the file.
ensure_headers(df, count) ==
  LET newcols == df.cols \cup headers_for_qa_count(count)
  IN [cols |-> newcols,
      rows |-> [i \in 1..Len(df.rows) |->
                  [df.rows[i] EXCEPT !.qa = [c \in newcols |->
                     IF c \in df.cols THEN df.rows[i].qa[c] ELSE ""]]]]

----------------------------------------------------------------------------
\* The CSV file: DataFrame.to_csv and pandas.read_csv

\* The text of a numeric cell
Numeral == "42"

\* Texts that read_csv takes for a missing value (its default na_values);
\* _reload turns missing values into "" with fillna("")  (storage.py:15)
NAStrings == {"", "N/A"}

\* The text to_csv writes for a cell: a number and the str of its digits are
\* written alike.
ToCsvCell(v) == IF v \in {NumCell, NumText} THEN Numeral ELSE v

\* One data line of the file
CsvRow(r) ==
  [sanskrit |-> ToCsvCell(r.sanskrit), english |-> ToCsvCell(r.english),
   tags |-> ToCsvCell(r.tags),
   qa |-> [c \in DOMAIN r.qa |-> ToCsvCell(r.qa[c])]]

\* A file of zero bytes, as open(path, "w") leaves it
EmptyFile == [hdr |-> FALSE, cols |-> {}, rows |-> <<>>]

\* A line that was never written (a hole below a later write)
HoleRow == [sanskrit |-> "", english |-> "", tags |-> "", qa |-> <<>>]

\* self.df.to_csv(tmp, index=False, encoding='utf-8-sig')  (storage.py:104):
\* the header line and one line per row
to_csv(df) ==
  [hdr |-> TRUE, cols |-> df.cols,
   rows |-> [i \in 1..Len(df.rows) |-> CsvRow(df.rows[i])]]

\* Line p of to_csv(df) written into content c at line p; line 0 is the
\* header.
WriteAt(c, p, df) ==
  IF p = 0 THEN [c EXCEPT !.hdr = TRUE, !.cols = df.cols]
  ELSE [c EXCEPT !.rows =
          [i \in 1..(IF Len(c.rows) > p THEN Len(c.rows) ELSE p) |->
             IF i = p THEN CsvRow(df.rows[p])
             ELSE IF i <= Len(c.rows) THEN c.rows[i] ELSE HoleRow]]

\* read_csv parses the content: there is a header line and no line has more
\* fields than the header.
Readable(c) ==
  /\ c.hdr
  /\ \A i \in 1..Len(c.rows) : DOMAIN c.rows[i].qa \subseteq c.cols

\* read_csv infers a column of numerals and missing values to be numeric.
IsNumericCol(texts) == texts \subseteq (NAStrings \cup {Numeral}) /\ Numeral \in texts

\* The value read_csv(...).fillna("") gives for a cell text
ReadCell(t, numeric) ==
  IF t \in NAStrings THEN ""
  ELSE IF t = Numeral THEN (IF numeric THEN NumCell ELSE NumText)
  ELSE t

\* pd.read_csv(self.csv_path, encoding='utf-8-sig').fillna("")
\* (storage.py:15); a line with fewer fields than the header is filled up
\* with missing values.
read_csv(c) ==
  LET n == Len(c.rows)
      qa(i, col) == IF col \in DOMAIN c.rows[i].qa THEN c.rows[i].qa[col] ELSE ""
  IN [cols |-> c.cols,
      rows |-> [i \in 1..n |->
        [sanskrit |-> ReadCell(c.rows[i].sanskrit,
                        IsNumericCol({c.rows[j].sanskrit : j \in 1..n})),
         english |-> ReadCell(c.rows[i].english,
                        IsNumericCol({c.rows[j].english : j \in 1..n})),
         tags |-> ReadCell(c.rows[i].tags,
                        IsNumericCol({c.rows[j].tags : j \in 1..n})),
         qa |-> [col \in c.cols |->
                   ReadCell(qa(i, col),
                            IsNumericCol({qa(j, col) : j \in 1..n}))]]]]

----------------------------------------------------------------------------
\* CSVStorage instances over one table file, operation by operation

Stores == {1, 2}

Paths == {"csv", "tmp"}

TmpIsCsv == "csv"

\* tmp = self.csv_path + ".tmp"  (storage.py:103, 115)
TmpPath == "tmp"

NoOp == [n |-> 0, s |-> 0, kind |-> "none", idx |-> -1, arg |-> <<>>,
         ret |-> "none", before |-> <<>>, old |-> EmptyFile, new |-> EmptyFile,
         reloaded |-> FALSE]

NoUpdate == [idx |-> -1, arg |-> <<>>, ret |-> "none"]

\* The inodes some path names or some writer holds open
InUse(path, sts) ==
  {path[p] : p \in Paths} \cup {sts[s].fd : s \in Stores}

\* The content of inodes nothing refers to is gone.
Collect(data, path, sts) ==
  [i \in DOMAIN data |-> IF i \in InUse(path, sts) THEN data[i] ELSE EmptyFile]

\* The content of the table file
CsvContent == fs_data[fs_path["csv"]]

OneLock(s, t) == TRUE

OwnLock(s, t) == s = t

\* self.lock = threading.Lock() in __init__ (storage.py:10): s and t take
\* the same lock only when they use one instance
SameLock(s, t) == s = t \/ shared

\* self.df of the instance that s uses is self.df for every user of that
\* instance
Share(sts, s) ==
  IF shared THEN [t \in Stores |-> [sts[t] EXCEPT !.df = sts[s].df]] ELSE sts

\* Instance s is inside the section it runs under its lock, between the
\* taking of the lock and os.replace (storage.py:75-105, 109-117)
Inside(s) == stores[s].pc \in {"staging", "staged"}

\* with self.lock: the lock of instance s can be taken
LockFree(s) == \A t \in Stores : SameLock(s, t) => ~ Inside(t)

\* CSVStorage.__init__ / reload (storage.py:8-21): the table is read from
\* the file; read_csv raises on a file it cannot parse.
Load(s) ==
  /\ stores[s].pc \in {"none", "idle", "dead"}
  /\ LockFree(s)
  /\ stores' = Share([stores EXCEPT ![s] =
       IF Readable(CsvContent)
       THEN [pc |-> "idle", op |-> "", df |-> read_csv(CsvContent), fd |-> 0,
             pos |-> 0]
       ELSE [pc |-> "none", op |-> "", df |-> [cols |-> {}, rows |-> <<>>],
             fd |-> 0, pos |-> 0]], s)
  /\ h_op' = IF h_op.s = s /\ h_op.ret = "true" /\ Readable(CsvContent)
             THEN [h_op EXCEPT !.reloaded = TRUE] ELSE h_op
  /\ UNCHANGED <<fs_path, fs_data, n_ops, h_written, h_upd, gvars, bvars,
                 xvars>>

\* open(tmp, "w") and the start of the write of table df by store s: the
\* staging file is created, or cut to zero bytes if it exists.
StartWrite(s, df, kind, idx, arg) ==
  LET ino == IF fs_path[TmpPath] # 0 THEN fs_path[TmpPath]
             ELSE CHOOSE i \in DOMAIN fs_data :
                    /\ i \notin InUse(fs_path, stores)
                    /\ \A j \in DOMAIN fs_data :
                         j \notin InUse(fs_path, stores) => i <= j
      path == [fs_path EXCEPT ![TmpPath] = ino]
      sts == Share([stores EXCEPT ![s] =
                      [pc |-> "staging", op |-> kind, df |-> df, fd |-> ino,
                       pos |-> 0]], s)
  IN /\ (DOMAIN fs_data) \ InUse(fs_path, stores) # {}
     /\ fs_path' = path
     /\ stores' = sts
     /\ fs_data' = Collect([fs_data EXCEPT ![ino] = EmptyFile], path, sts)
     /\ h_op' = [n |-> n_ops + 1, s |-> s, kind |-> kind, idx |-> idx,
                 arg |-> arg, ret |-> "pending", before |-> stores[s].df,
                 old |-> CsvContent, new |-> to_csv(df), reloaded |-> FALSE]
     /\ h_written' = h_written \cup {to_csv(df)}

\* update_row_with_qas(idx, payload) on store s, up to the opening of the
\* staging file (storage.py:74-104)
UpdateBegin(s, idx, payload) ==
  /\ stores[s].pc = "idle"
  /\ LockFree(s)
  /\ n_ops < MaxOps
  /\ n_ops' = n_ops + 1
  /\ LET upd == update_row_with_qas(stores[s].df, idx, payload)
     IN /\ IF upd.ok
           THEN StartWrite(s, upd.df, "update", idx, payload)
           ELSE /\ h_op' = [n |-> n_ops + 1, s |-> s, kind |-> "update",
                            idx |-> idx, arg |-> payload, ret |-> "false",
                            before |-> stores[s].df, old |-> CsvContent,
                            new |-> CsvContent, reloaded |-> FALSE]
                /\ UNCHANGED <<fs_path, fs_data, stores, h_written>>
        /\ h_upd' = [h_upd EXCEPT ![s] =
                       [idx |-> idx, arg |-> payload,
                        ret |-> IF upd.ok THEN "pending" ELSE "false"]]
  /\ UNCHANGED <<gvars, bvars, xvars>>

\* ensure_headers(count) on store s, up to the opening of the staging file
\* (storage.py:108-116)
EnsureBegin(s, count) ==
  /\ stores[s].pc = "idle"
  /\ LockFree(s)
  /\ n_ops < MaxOps
  /\ n_ops' = n_ops + 1
  /\ StartWrite(s, ensure_headers(stores[s].df, count), "ensure", count, <<>>)
  /\ UNCHANGED <<h_upd, gvars, bvars, xvars>>

\* to_csv writes the next line into the staging file it opened; after the
\* last line the file is closed.
WriteLine(s) ==
  /\ stores[s].pc = "staging"
  /\ LET st == stores[s]
         last == st.pos >= Len(st.df.rows)
         sts == [stores EXCEPT ![s] =
                   IF last THEN [st EXCEPT !.pc = "staged", !.fd = 0, !.pos = 0]
                   ELSE [st EXCEPT !.pos = st.pos + 1]]
     IN /\ stores' = sts
        /\ fs_data' = Collect([fs_data EXCEPT ![st.fd] =
                                 WriteAt(@, st.pos, st.df)], fs_path, sts)
  /\ UNCHANGED <<fs_path, n_ops, h_op, h_written, h_upd, gvars, bvars, xvars>>

\* os.replace(tmp, self.csv_path)  (storage.py:105, 117): the staging path's
\* file becomes the table file in one step; FileNotFoundError if the staging
\* path names no file.
Replace(s) ==
  /\ stores[s].pc = "staged"
  /\ LET found == fs_path[TmpPath] # 0
         path == IF found
                 THEN [p \in Paths |-> IF p = "csv" THEN fs_path[TmpPath]
                                       ELSE IF p = TmpPath THEN 0
                                       ELSE fs_path[p]]
                 ELSE fs_path
         sts == [stores EXCEPT ![s] = [@ EXCEPT !.pc = "idle", !.op = ""]]
     IN /\ fs_path' = path
        /\ stores' = sts
        /\ fs_data' = Collect(fs_data, path, sts)
        /\ h_op' = IF h_op.s = s /\ h_op.ret = "pending"
                   THEN [h_op EXCEPT !.ret = IF found THEN "true" ELSE "raised"]
                   ELSE h_op
        /\ h_upd' = IF stores[s].op = "update"
                    THEN [h_upd EXCEPT ![s].ret = IF found THEN "true"
                                                  ELSE "raised"]
                    ELSE h_upd
  /\ UNCHANGED <<n_ops, h_written, gvars, bvars, xvars>>

\* The operation of store s is cut off (the process dies, or to_csv raises)
\* before os.replace ran.
Interrupt(s) ==
  /\ stores[s].pc \in {"staging", "staged"}
  /\ LET sts == [stores EXCEPT ![s] = [@ EXCEPT !.pc = "dead", !.fd = 0,
                                                !.pos = 0]]
     IN /\ stores' = sts
        /\ fs_data' = Collect(fs_data, fs_path, sts)
  /\ h_op' = IF h_op.s = s /\ h_op.ret = "pending"
             THEN [h_op EXCEPT !.ret = "interrupted"] ELSE h_op
  /\ h_upd' = IF stores[s].op = "update"
              THEN [h_upd EXCEPT ![s].ret = "interrupted"] ELSE h_upd
  /\ UNCHANGED <<fs_path, n_ops, h_written, gvars, bvars, xvars>>

\* has_existing_qa_data(idx) on store s
Query(s, idx) ==
  /\ stores[s].pc = "idle"
  /\ n_ops < MaxOps
  /\ n_ops' = n_ops + 1
  /\ h_op' = [n |-> n_ops + 1, s |-> s, kind |-> "query", idx |-> idx,
              arg |-> <<>>,
              ret |-> IF has_existing_qa_data(stores[s].df, idx)
                      THEN "true" ELSE "false",
              before |-> stores[s].df, old |-> CsvContent, new |-> CsvContent,
              reloaded |-> FALSE]
  /\ UNCHANGED <<fs_path, fs_data, stores, h_written, h_upd, gvars, bvars,
                 xvars>>

----------------------------------------------------------------------------
\* app.py: one batch process and its background task

Running == {"initializing", "running"}

Terminal == {"completed", "error"}

NoSubmit == [f |-> "", idx |-> -1, on_disk |-> FALSE, seen_on_disk |-> FALSE,
             at_start |-> FALSE]

NoEvent == [kind |-> "none", f |-> "", idx |-> -1, healthy |-> TRUE,
            failed |-> 0]

\* Whether row idx of a table bears non-empty QA data in any slot column,
\* question or answer.
BearsQA(df, idx) ==
  /\ idx >= 0 /\ idx < Len(df.rows)
  /\ \E c \in df.cols : df.rows[idx + 1].qa[c] # ""

\* file_ids of a request, after the filter on file_registry (app.py:290-295)
FileIdLists == {<<"f1">>, <<"f1", "f2">>, <<"f2", "f1">>, <<"f1", "f1">>}

Variants == {"batch", "detailed"}

Range(seq) == {seq[i] : i \in 1..Len(seq)}

\* start_batch_process (app.py:284-321) and start_detailed_batch_process
\* (app.py:505-557): the status object is created, the task is queued.
StartBatch(ids, v, n) ==
  /\ status = "none"
  /\ Range(ids) \subseteq registry
  /\ variant' = v
  /\ file_ids' = ids
  /\ qa_count' = n
  /\ status' = IF v = "detailed" THEN "initializing" ELSE "running"
  /\ progress' = [f \in Range(ids) |->
                    [processed |-> 0, current_row |-> 0,
                     total |-> row_count(disk[f]), status |-> "pending"]]
  /\ st_results' = IF v = "detailed" THEN <<>> ELSE [f \in Range(ids) |-> <<>>]
  /\ current_file' = ""
  /\ error_message' = ""
  /\ processed_files' = 0
  /\ b_pc' = IF v = "detailed" THEN "start" ELSE "file"
  /\ file_idx' = 1
  /\ row_idx' = 0
  /\ results' = <<>>
  /\ storage' = [cols |-> {}, rows |-> <<>>]
  /\ h_submit' = NoSubmit
  /\ h_event' = NoEvent
  /\ h_unavailable' = FALSE
  /\ h_atstart' = disk
  /\ UNCHANGED <<disk, n_saves, processed_count,
                 h_save, gvars, svars, xvars>>

\* process_files_with_detailed_status: status.status = "running" (app.py:713)
TaskStart ==
  /\ b_pc = "start"
  /\ status' = "running"
  /\ b_pc' = "file"
  /\ UNCHANGED <<disk, variant, file_ids, qa_count, file_idx, row_idx, storage,
                 results, st_results, progress, current_file, error_message,
                 processed_files, h_submit, h_event, h_unavailable, h_atstart,
                 n_saves, processed_count,
                 h_save, gvars, svars, xvars>>

MarkNone(prog, cur, v) == prog

\* The except clause's marking of the files in flight (app.py:471-475 with
\* its guard on status.current_file, app.py:815-819 without).
MarkError(prog, cur, v) ==
  IF v = "batch" /\ cur = "" THEN prog
  ELSE [f \in DOMAIN prog |->
          IF prog[f].status = "processing"
          THEN [prog[f] EXCEPT !.status = "error"] ELSE prog[f]]

BatchFaultKeepsStatus(e, prog, cur) ==
  /\ status' = status
  /\ error_message' = e
  /\ progress' = MarkError(prog, cur, variant)
  /\ b_pc' = "done"

\* except Exception as e  (app.py:467-475, 811-819), given the progress map
\* and current file as the failing statement left them
BatchFault(e, prog, cur) ==
  /\ status' = "error"
  /\ error_message' = e
  /\ progress' = MarkError(prog, cur, variant)
  /\ b_pc' = "done"

\* Top of the file loop (app.py:388-404, 716-733): the store is constructed
\* from the file, the file is marked processing.
OpenFile(readable) ==
  /\ b_pc = "file"
  /\ file_idx <= Len(file_ids)
  /\ file_ids[file_idx] \in registry
  /\ LET f == file_ids[file_idx]
     IN IF ~ readable
        THEN \* CSVStorage(file_path) raises: pd.read_csv fails
             /\ BatchFault("read_csv failed", progress, current_file)
             /\ h_event' = [NoEvent EXCEPT !.kind = "open_failed", !.f = f]
             /\ UNCHANGED <<storage, current_file, row_idx, results>>
        ELSE /\ storage' = disk[f]
             /\ current_file' = Filename(f)
             /\ progress' = [progress EXCEPT ![f] =
                  [processed |-> @.processed,
                   current_row |-> 0,
                   total |-> IF variant = "batch" THEN row_count(disk[f])
                             ELSE @.total,
                   status |-> "processing"]]
             /\ row_idx' = 0
             /\ results' = <<>>
             /\ b_pc' = "row"
             /\ h_event' = [NoEvent EXCEPT !.kind = "opened", !.f = f]
             /\ UNCHANGED <<status, error_message>>
  /\ UNCHANGED <<disk, variant, file_ids, qa_count, file_idx, st_results,
                 processed_files, h_submit, h_unavailable, h_atstart, n_saves,
                 processed_count,
                 h_save, gvars, svars, xvars>>

\* if file_id not in file_registry: continue  (app.py:389-390, 717-718):
\* a file deleted since the request was accepted is passed over, its
\* progress entry and the counters as they are.
FileSkip ==
  /\ b_pc = "file"
  /\ file_idx <= Len(file_ids)
  /\ file_ids[file_idx] \notin registry
  /\ file_idx' = file_idx + 1
  /\ h_event' = [NoEvent EXCEPT !.kind = "file_skipped",
                                !.f = file_ids[file_idx]]
  /\ UNCHANGED <<disk, status, variant, file_ids, qa_count, b_pc, row_idx,
                 storage, results, st_results, progress, current_file,
                 error_message, processed_files, h_submit, h_unavailable,
                 h_atstart, n_saves, processed_count, h_save, gvars, svars,
                 pvars, shared, registry>>

\* delete_file (app.py:181-202): the table file and its metadata are
\* removed and the id leaves file_registry. disk[f] stays as the content the
\* file had: every reader looks the id up in the registry first.
delete_file(f) ==
  /\ f \in registry
  /\ registry' = registry \ {f}
  /\ UNCHANGED <<gvars, bvars, svars, pvars, shared>>

\* result_item (app.py:431-437, 767-774)
ResultItem(f, idx, row, qas) ==
  [id |-> idx, file_id |-> f, sanskrit |-> row.sanskrit,
   english |-> row.english, qas |-> qas]

CatchesNothing(exc) == FALSE

\* except Exception as e around generate_for_row (app.py:442-444, 779-781):
\* the exceptions it catches
CaughtAtRow(exc) == exc \in {"RuntimeError", "ValueError", "TypeError"}

NextRowSkips(idx) == idx + 2

\* for row_idx in range(total_rows): the index after idx (app.py:406, 735)
NextRow(idx) == idx + 1

\* One iteration of the row loop (app.py:406-449, 735-786). `healthy` and `m`
\* are what the generation service does if the row is submitted: the health
\* check's answer and how many of the attempts fail.
ProcessRow(healthy, m) ==
  /\ b_pc = "row"
  /\ m <= qa_count
  /\ row_idx < row_count(storage)
  /\ LET f == file_ids[file_idx]
         row == get_row(storage, row_idx)
         \* status.progress[file_id]["processed"] = row_idx + 1 (app.py:408),
         \* file_progress.current_row = row_idx + 1 (app.py:737)
         prog == IF variant = "batch"
                 THEN [progress EXCEPT ![f].processed = row_idx + 1]
                 ELSE [progress EXCEPT ![f].current_row = row_idx + 1]
         ev(kind) == [kind |-> kind, f |-> f, idx |-> row_idx, healthy |-> TRUE,
                      failed |-> 0]
         \* how many attempts of the fan-out failed (none is made when the
         \* health check fails)
         called(kind) == [ev(kind) EXCEPT !.healthy = healthy,
                            !.failed = IF healthy THEN m ELSE 0]
         gen == generate_for_row(qa_count, healthy, Settled(qa_count, m))
         submitted == [f |-> f, idx |-> row_idx,
                       on_disk |-> BearsQA(disk[f], row_idx),
                       seen_on_disk |-> has_existing_qa_data(disk[f], row_idx),
                       at_start |-> BearsQA(h_atstart[f], row_idx)]
     IN IF ~ IsStr(row.sanskrit)
        THEN \* row.get("sanskrit", "")[:50] raises TypeError
             /\ BatchFault("TypeError", prog, current_file)
             /\ h_event' = ev("preview_error")
             /\ UNCHANGED <<row_idx, results, h_submit, h_unavailable>>
        ELSE IF has_existing_qa_data(storage, row_idx)
        THEN /\ progress' = prog
             /\ row_idx' = NextRow(row_idx)
             /\ h_event' = ev("skipped")
             /\ UNCHANGED <<status, error_message, b_pc, results, h_submit,
                            h_unavailable>>
        ELSE IF row.sanskrit = "" \/ row.english = ""
        THEN /\ progress' = prog
             /\ row_idx' = NextRow(row_idx)
             /\ h_event' = ev("missing_text")
             /\ UNCHANGED <<status, error_message, b_pc, results, h_submit,
                            h_unavailable>>
        ELSE IF ~ gen.raised
        THEN /\ progress' = prog
             /\ row_idx' = NextRow(row_idx)
             /\ results' = Append(results, ResultItem(f, row_idx, row, gen.val))
             /\ h_submit' = submitted
             /\ h_event' = called("generated")
             /\ UNCHANGED <<status, error_message, b_pc, h_unavailable>>
        ELSE IF CaughtAtRow(gen.exc)
        THEN /\ progress' = prog
             /\ row_idx' = NextRow(row_idx)
             /\ h_submit' = submitted
             /\ h_event' = called("row_fault")
             /\ h_unavailable' = (h_unavailable \/ ~ healthy)
             /\ UNCHANGED <<status, error_message, b_pc, results>>
        ELSE /\ BatchFault(gen.exc, prog, current_file)
             /\ h_submit' = submitted
             /\ h_event' = called("generate_escaped")
             /\ UNCHANGED <<row_idx, results, h_unavailable>>
  /\ UNCHANGED <<disk, variant, file_ids, qa_count, file_idx, storage,
                 st_results, current_file, processed_files, h_atstart,
                 n_saves, processed_count,
                 h_save, gvars, svars, xvars>>

FinishFileSaving ==
  /\ b_pc = "row"
  /\ row_idx >= row_count(storage)
  /\ LET f == file_ids[file_idx]
     IN /\ st_results' = [x \in (DOMAIN st_results) \cup {f} |->
                            IF x = f THEN results ELSE st_results[x]]
        /\ disk' = IF results = <<>> THEN disk
                   ELSE [disk EXCEPT ![f] =
                           update_row_with_qas(@, results[1].id,
                                               results[1].qas).df]
        /\ progress' = [progress EXCEPT ![f].status = "completed"]
        /\ processed_files' = file_idx
        /\ b_pc' = "meta"
        /\ h_event' = [NoEvent EXCEPT !.kind = "file_done", !.f = f]
  /\ UNCHANGED <<status, variant, file_ids, qa_count, file_idx, row_idx,
                 storage, results, current_file, error_message, h_submit,
                 h_unavailable, h_atstart, n_saves, processed_count,
                 h_save, gvars, svars, xvars>>

\* After the last row (app.py:451-454, 788-795): the file's results are
\* published and the file is marked completed.
FinishFile ==
  /\ b_pc = "row"
  /\ row_idx >= row_count(storage)
  /\ LET f == file_ids[file_idx]
     IN /\ st_results' = [x \in (DOMAIN st_results) \cup {f} |->
                            IF x = f THEN results ELSE st_results[x]]
        /\ progress' = [progress EXCEPT ![f] =
                    [processed |-> IF variant = "detailed"
                                   THEN row_count(storage) ELSE @.processed,
                     current_row |-> IF variant = "detailed"
                                     THEN row_count(storage) ELSE @.current_row,
                     total |-> @.total,
                     status |-> "completed"]]
        /\ processed_files' = file_idx
        /\ b_pc' = "meta"
        /\ h_event' = [NoEvent EXCEPT !.kind = "file_done", !.f = f]
  /\ UNCHANGED <<disk, status, variant, file_ids, qa_count, file_idx, row_idx,
                 storage, results, current_file, error_message, h_submit,
                 h_unavailable, h_atstart, n_saves, processed_count,
                 h_save, gvars, svars, xvars>>

\* The file's metadata is rewritten (app.py:456-462, 797-805); the next file.
UpdateMetadata(io_ok) ==
  /\ b_pc = "meta"
  /\ LET f == file_ids[file_idx]
     IN IF io_ok /\ f \in registry
        THEN \* metadata["processed_count"] = len([r for r in results if r])
             /\ processed_count' = [processed_count EXCEPT ![f] = Len(results)]
             /\ file_idx' = file_idx + 1
             /\ b_pc' = "file"
             /\ h_event' = [NoEvent EXCEPT !.kind = "metadata_saved", !.f = f]
             /\ UNCHANGED <<status, error_message, progress>>
        ELSE \* save_file_metadata raises, or file_registry[file_id] raises
             \* KeyError for a file deleted since it was opened
             /\ BatchFault(IF io_ok THEN "KeyError"
                           ELSE "metadata write failed", progress, current_file)
             /\ h_event' = [NoEvent EXCEPT !.kind = "metadata_failed", !.f = f]
             /\ UNCHANGED <<file_idx, processed_count>>
  /\ UNCHANGED <<disk, variant, file_ids, qa_count, row_idx, storage, results,
                 st_results, current_file, processed_files, h_submit,
                 h_unavailable, h_atstart, n_saves, h_save, gvars, svars, xvars>>

\* After the last file: status.status = "completed" (app.py:464, 807)
Finish ==
  /\ b_pc = "file"
  /\ file_idx > Len(file_ids)
  /\ status' = "completed"
  /\ b_pc' = "done"
  /\ h_event' = [NoEvent EXCEPT !.kind = "batch_done"]
  /\ UNCHANGED <<disk, variant, file_ids, qa_count, file_idx, row_idx, storage,
                 results, st_results, progress, current_file, error_message,
                 processed_files, h_submit, h_unavailable, h_atstart, n_saves,
                 processed_count,
                 h_save, gvars, svars, xvars>>

\* The payloads a client saves
SavePayloads ==
  { [k \in {"q_en", "a_en"} |-> List(<<"t1">>)],
    [k \in {"q_en", "a_en"} |-> List(<<IF k = "a_en" THEN "t1" ELSE "">>)],
    <<>> }

\* sum(1 for i in range(storage.row_count())
\*     if storage.has_existing_qa_data(i))  (app.py:276-277, 613-614)
CountProcessed(df) ==
  Cardinality({i \in 0..(row_count(df) - 1) : has_existing_qa_data(df, i)})

\* save_file_row (app.py:260-282): a store of its own over the file, one
\* update_row_with_qas; a false return is answered with HTTP 400, after a
\* true one the processed count is taken from a second store over the file.
SaveFileRow(f, idx, payload) ==
  /\ n_saves < MaxSaves
  /\ f \in registry
  /\ LET upd == update_row_with_qas(disk[f], idx, payload)
         saved == IF upd.ok THEN read_csv(to_csv(upd.df)) ELSE disk[f]
     IN /\ disk' = [disk EXCEPT ![f] = saved]
        /\ n_saves' = IF upd.ok THEN n_saves + 1 ELSE n_saves
        /\ processed_count' = IF upd.ok
                              THEN [processed_count EXCEPT ![f] =
                                      CountProcessed(saved)]
                              ELSE processed_count
        /\ h_event' = [NoEvent EXCEPT
                         !.kind = IF upd.ok THEN "saved" ELSE "save_refused",
                         !.f = f, !.idx = idx]
  /\ UNCHANGED <<status, variant, file_ids, qa_count, b_pc, file_idx, row_idx,
                 storage, results, st_results, progress, current_file,
                 error_message, processed_files, h_submit,
                 h_unavailable, h_atstart, h_save, gvars, svars, xvars>>

----------------------------------------------------------------------------
\* app.py: saving the selected results of a batch

\* The handlers registered for POST /process/save/{process_id}, in the order
\* of their decorators (app.py:331, app.py:559), and the one for
\* POST /process/save (app.py:627)
RoutesById == <<"save_batch_results", "save_batch_process_results">>

\* The router runs the first route that matches the request.
Dispatch(routes) == routes[1]

NoSave == [handler |-> "", req |-> <<>>, fail |-> {}, http |-> 0,
           counts |-> FALSE, saved |-> 0, errors |-> 0,
           unknown |-> 0, written |-> 0, failed |-> 0, attempted |-> 0]

\* The rows of one file_id, saved one after the other through one store
\* (app.py:345-348, 580-606, 661-682).  acc carries the store's table, the
\* file's table, the counters, and the number of rows of the request seen so
\* far; the write of a row whose number is in `fail` raises after the table
\* in memory was changed.  `catches` says whether the handler wraps the
\* write in try/except.
RECURSIVE SaveRows(_, _, _, _, _)
SaveRows(rows, k, acc, fail, catches) ==
  IF k > Len(rows) \/ acc.aborted THEN acc
  ELSE LET upd == update_row_with_qas(acc.mem, rows[k].id, rows[k].qa)
           seen == [acc EXCEPT !.pos = @ + 1, !.attempted = @ + 1]
           next == IF ~ upd.ok
                   THEN [seen EXCEPT !.failed = @ + 1]
                   ELSE IF (acc.pos + 1) \in fail
                   THEN [seen EXCEPT !.mem = upd.df, !.failed = @ + 1,
                                     !.aborted = ~ catches]
                   ELSE [seen EXCEPT !.mem = upd.df,
                                     !.file = read_csv(to_csv(upd.df)),
                                     !.written = @ + 1]
       IN CHOOSE r \in {SaveRows(rows, k + 1, a, fail, catches) : a \in {next}} :
            TRUE

\* The loop over the file ids of the request (app.py:338-348, 571-606,
\* 652-682).  An unknown file id is skipped; `per_unknown` is what the
\* handler adds to its error count for it.
RECURSIVE SaveEntries(_, _, _, _, _, _)
SaveEntries(req, e, st, fail, catches, per_unknown) ==
  IF e > Len(req) \/ st.aborted THEN st
  ELSE LET f == req[e].file_id
           rows == req[e].rows
           skipped == [st EXCEPT !.unknown = @ + 1, !.pos = @ + Len(rows),
                                 !.unknown_errors = @ + per_unknown[Len(rows)]]
           start == [mem |-> st.disk[f], file |-> st.disk[f],
                     pos |-> st.pos, attempted |-> st.attempted,
                     written |-> st.written, failed |-> st.failed,
                     aborted |-> FALSE]
           after(acc) == [st EXCEPT !.disk = [@ EXCEPT ![f] = acc.file],
                                    !.pos = acc.pos,
                                    !.attempted = acc.attempted,
                                    !.written = acc.written,
                                    !.failed = acc.failed,
                                    !.aborted = acc.aborted]
           next == IF f \notin Files THEN {skipped}
                   ELSE {after(acc) : acc \in {SaveRows(rows, 1, a, fail, catches) :
                                                 a \in {start}}}
       IN CHOOSE r \in {SaveEntries(req, e + 1, n, fail, catches, per_unknown) :
                          n \in next} : TRUE

SaveStart(d) ==
  [disk |-> d, pos |-> 0, attempted |-> 0, written |-> 0, failed |-> 0,
   unknown |-> 0, unknown_errors |-> 0, aborted |-> FALSE]

\* The number of rows of the known files of a request
RECURSIVE KnownRows(_, _)
KnownRows(req, e) ==
  IF e > Len(req) THEN 0
  ELSE (IF req[e].file_id \in Files THEN Len(req[e].rows) ELSE 0)
       + KnownRows(req, e + 1)

\* The three handlers: the response and the tables afterwards.
\* save_batch_results (app.py:331-350): no counters, no try/except, the
\* response names the file ids of the payload.
\* save_batch_process_results (app.py:559-626): counters, try/except per
\* row, one error per unknown file id, processed counts refreshed.
\* save_batch_results (app.py:627-688): counters, try/except per row, one
\* error per row of an unknown file id.
RunSave(handler, req, fail, d) ==
  LET catches == handler # "save_batch_results"
      per_unknown == [n \in 0..MaxRows |->
                        IF handler = "save_batch_process_results" THEN 1
                        ELSE IF handler = "save_rows" THEN n ELSE 0]
      counts == catches
      answer(st) ==
        [disk |-> st.disk,
         refresh |-> handler = "save_batch_process_results",
         resp |-> [handler |-> handler, req |-> req, fail |-> fail,
                   http |-> IF st.aborted THEN 500 ELSE 200,
                   counts |-> counts /\ ~ st.aborted,
                   saved |-> IF counts /\ ~ st.aborted THEN st.written ELSE 0,
                   errors |-> IF counts /\ ~ st.aborted
                              THEN st.failed + st.unknown_errors ELSE 0,
                   unknown |-> st.unknown, written |-> st.written,
                   failed |-> st.failed, attempted |-> st.attempted]]
  IN CHOOSE r \in {answer(st) : st \in {SaveEntries(req, 1, a, fail, catches,
                                                     per_unknown) :
                                           a \in {SaveStart(d)}}} : TRUE

\* A save request is answered by `handler`; process_known says whether the
\* handler finds the process id in the registry it looks in.
AnswerSave(handler, process_known, req, fail) ==
  /\ n_saves < MaxSaves
  /\ n_saves' = n_saves + 1
  /\ IF ~ process_known
     THEN \* raise HTTPException(status_code=404, detail="Process not found")
          /\ h_save' = [NoSave EXCEPT !.handler = handler, !.req = req,
                                      !.fail = fail, !.http = 404]
          /\ UNCHANGED <<disk, processed_count>>
     ELSE \E run \in {RunSave(handler, req, fail, disk)} :
             /\ disk' = run.disk
             /\ h_save' = run.resp
             /\ processed_count' =
                  [f \in Files |->
                     IF run.refresh /\ run.resp.http = 200
                        /\ \E e \in 1..Len(req) : req[e].file_id = f
                     THEN CountProcessed(run.disk[f]) ELSE processed_count[f]]
  /\ UNCHANGED <<status, variant, file_ids, qa_count, b_pc, file_idx, row_idx,
                 storage, results, st_results, progress, current_file,
                 error_message, processed_files, h_submit, h_event,
                 h_unavailable, h_atstart, gvars, svars, xvars>>

\* POST /process/save/{process_id} for the process of the batch: the first
\* registered handler answers; it looks the id up in process_statuses, where
\* only start_batch_process puts it (app.py:301, 334; the second handler
\* would look in detailed_process_statuses, app.py:525, 563).
ProcessSaveById(req, fail) ==
  /\ status # "none"
  /\ LET handler == Dispatch(RoutesById)
     IN AnswerSave(handler,
                   IF handler = "save_batch_results" THEN variant = "batch"
                   ELSE variant = "detailed",
                   req, fail)

\* POST /process/save with {"process_id": ..., "rows": [...]}  (app.py:
\* 627-688); `req` is rows_by_file, the rows grouped by their file_id.
ProcessSaveRows(req, fail) ==
  /\ status # "none"
  /\ req # <<>>
  /\ AnswerSave("save_rows", TRUE, req, fail)

----------------------------------------------------------------------------
\* Initial states

InitCols == {Col("q_en", 1), Col("a_en", 1)}

Row(s, e, q, a) ==
  [sanskrit |-> s, english |-> e, tags |-> "",
   qa |-> [c \in InitCols |-> IF c[1] = "q_en" THEN q ELSE a]]

\* The rows a table file starts with: not yet processed, processed, bearing
\* an answer only, a numeric source cell, no translation.
InitRows ==
  { Row("s", "e", "", ""), Row("s", "e", "t1", "t1"), Row("s", "e", "", "t1"),
    Row(NumCell, "e", "", ""), Row("s", "", "", "") }

Table(rows) == [cols |-> InitCols, rows |-> rows]

SeqsUpTo(S, n) == UNION {[1..k -> S] : k \in 1..n}

GIdle ==
  /\ g_pc = "idle"
  /\ g_n = 0
  /\ g_healthy = FALSE
  /\ g_att = NoAttempts
  /\ g_results = EmptyResults
  /\ g_collected = {}
  /\ g_requests = 0
  /\ g_out = <<>>

BIdle ==
  /\ status = "none"
  /\ variant = "batch"
  /\ file_ids = <<>>
  /\ qa_count = 0
  /\ b_pc = "done"
  /\ file_idx = 1
  /\ row_idx = 0
  /\ storage = [cols |-> {}, rows |-> <<>>]
  /\ results = <<>>
  /\ st_results = <<>>
  /\ progress = <<>>
  /\ current_file = ""
  /\ error_message = ""
  /\ processed_files = 0
  /\ processed_count = [f \in Files |-> 0]
  /\ h_submit = NoSubmit
  /\ h_event = NoEvent
  /\ h_unavailable = FALSE
  /\ h_save = NoSave
  /\ n_saves = 0

\* No store in use: the table file alone
SIdle ==
  /\ fs_path = [p \in Paths |-> IF p = "csv" THEN 1 ELSE 0]
  /\ fs_data = [i \in 1..NInodes |-> EmptyFile]
  /\ stores = [s \in Stores |-> [pc |-> "none", op |-> "",
                                  df |-> [cols |-> {}, rows |-> <<>>],
                                  fd |-> 0, pos |-> 0]]
  /\ n_ops = 0
  /\ h_op = NoOp
  /\ h_written = {}
  /\ h_upd = [s \in Stores |-> NoUpdate]
  /\ shared = FALSE
  /\ registry = Files

----------------------------------------------------------------------------
\* The response texts the ResponseParser is tried on

\* Items per list in a response text
MaxItems == 2

\* Pieces of a string's content in a response text
MaxPieces == 3

\* Closing characters cut off the end of a response text
MaxCut == 3

RECURSIVE Join(_, _)
Join(texts, sep) ==
  IF Len(texts) = 0 THEN <<>>
  ELSE IF Len(texts) = 1 THEN texts[1]
  ELSE CHOOSE r \in {texts[1] \o sep \o rest :
                       rest \in {Join(Tail(texts), sep)}} : TRUE

StrText(content) == <<Quote>> \o content \o <<Quote>>

ArrText(values) == <<"[">> \o Join(values, <<",">>) \o <<"]">>

MemberText(k, value) == StrText(<<k>>) \o <<":">> \o value

ObjText(members) == <<"{">> \o Join(members, <<",">>) \o <<"}">>

\* The asked-for object: the six keys, each a list of len texts
SixKeys(len) ==
  ObjText([i \in 1..Len(required) |->
             MemberText(required[i], ArrText([p \in 1..len |-> StrText(<<Txt[p]>>)]))])

\* The objects of the answers: of the asked-for shape with 0..MaxItems items,
\* without the last key, and with a key that holds a string, a number or an
\* object instead of a list
AnswerObjects ==
  {SixKeys(len) : len \in 0..MaxItems} \cup
  {ObjText([i \in 1..(Len(required) - 1) |->
              MemberText(required[i], ArrText(<<StrText(<<Txt[1]>>)>>))])} \cup
  {ObjText([i \in 1..Len(required) |->
              MemberText(required[i],
                         IF required[i] = "q_hi" THEN other
                         ELSE ArrText(<<StrText(<<Txt[1]>>)>>))]) :
     other \in {StrText(<<Txt[1]>>), <<Digit>>, ObjText(<<>>)}}

\* Nested objects that end in closing characters only
NestedObjects ==
  { ObjText(<<MemberText("a", ObjText(<<MemberText("b",
              ObjText(<<MemberText("c", <<Digit>>)>>))>>))>>),
    ObjText(<<MemberText("a", ArrText(<<ObjText(<<MemberText("b", <<Digit>>)>>)>>))>>),
    ObjText(<<MemberText("a", ObjText(<<MemberText("b",
              ArrText(<<ArrText(<<>>)>>))>>))>>) }

\* The pieces of a string's content: an escaped quote, an escaped backslash,
\* a brace, a bracket, a letter
Pieces ==
  { <<Backslash, Quote>>, <<Backslash, Backslash>>,
    <<"{">>, <<"}">>, <<"[">>, <<"]">>, <<"x">> }

\* String contents with an escaped quote and a brace or bracket in them
TrickyContents ==
  {Join(ps, <<>>) : ps \in
     {qs \in UNION {[1..k -> Pieces] : k \in 2..MaxPieces} :
        /\ \E i \in DOMAIN qs : qs[i] = <<Backslash, Quote>>
        /\ \E i \in DOMAIN qs : qs[i] \in {<<"{">>, <<"}">>, <<"[">>, <<"]">>}}}

\* Balanced objects that hold such a string, as a member and inside a list
TrickyObjects ==
  {ObjText(<<MemberText("a", StrText(c))>>) : c \in TrickyContents} \cup
  {ObjText(<<MemberText("a", ArrText(<<StrText(c),
                                       ObjText(<<MemberText("b", StrText(c))>>)>>))>>) :
     c \in TrickyContents}

\* Narrative before the object: none, a line of its own, words on the line of
\* the object (with a quote, a bracket and a backslash in them)
Heads == { <<>>, <<"x", Newline>>, <<"x", Quote, "]", Backslash, Space>> }

\* What follows the object: nothing, words, a stray brace, a second object
Tails == { <<>>, <<Space, "x">>, <<"}">>, <<Newline, "{", "}">> }

DropLast(t, k) == SubSeq(t, 1, Len(t) - k)

\* The text of an input: head, the body without its last `cut` characters, tail
Whole(parts) == parts.head \o DropLast(parts.body, parts.cut) \o parts.tail

\* The last k characters of the text are closing characters
EndsInClosers(t, k) ==
  k <= Len(t) /\ \A i \in (Len(t) - k + 1)..Len(t) : t[i] \in {"}", "]"}

Input(family, head, body, cut, tail) ==
  [family |-> family, head |-> head, body |-> body, cut |-> cut, tail |-> tail]

NoInput == Input("none", <<>>, <<>>, 0, <<>>)

\* The inputs: answers and tricky objects inside narrative, objects that
\* lost their last closing characters, and texts without any object
Inputs ==
  {Input("answer", h, b, 0, t) : h \in Heads, b \in AnswerObjects, t \in Tails} \cup
  {Input("tricky", h, b, 0, t) :
     h \in Heads \ {<<"x", Newline>>}, b \in TrickyObjects,
     t \in Tails \ {<<Newline, "{", "}">>}} \cup
  {i \in {Input("cut", <<>>, b, k, <<>>) :
            b \in AnswerObjects \cup NestedObjects, k \in 0..MaxCut} :
     EndsInClosers(i.body, i.cut)} \cup
  {Input("plain", h, <<>>, 0, <<>>) : h \in {<<>>, <<Space, Newline>>, <<"x">>, <<"}", "{">>}}

\* No text under work
PIdle ==
  /\ p_pc = "idle"
  /\ p_call = ""
  /\ p_i = 0
  /\ p_st = ScanStart
  /\ p_text = <<>>
  /\ h_parts = NoInput
  /\ p_found = NoText
  /\ p_dict = NoDict
  /\ p_n = 0
  /\ p_out = [raised |-> FALSE, val |-> <<>>]

\* The text _extract_first_json is scanning: the response text, or the
\* cleaned text inside _try_parse_response
Scanned == IF p_call = "parse" THEN Cleaned(p_text) ELSE p_text

\* _extract_first_json has its result (generate_api.py:159, 163-164); inside
\* _try_parse_response the second and third attempt follow
ScanDone(found) ==
  /\ p_found' = found
  /\ IF p_call = "parse"
     THEN /\ p_pc' = "parsed"
          /\ p_dict' = AfterExtract(Scanned, found)
     ELSE /\ p_pc' = "extracted"
          /\ p_dict' = p_dict
  /\ UNCHANGED <<p_i, p_st>>

\* _extract_first_json up to its loop (generate_api.py:123-135): no result
\* for an empty text or a text without '{', else the loop starts at the
\* first '{'
ScanBegin(call, s) ==
  /\ p_call' = call
  /\ IF Len(s) = 0 \/ Find(s, "{") = 0
     THEN /\ p_found' = NoText
          /\ p_i' = 0
          /\ p_st' = ScanStart
          /\ IF call = "parse"
             THEN p_pc' = "parsed" /\ p_dict' = AfterExtract(s, NoText)
             ELSE p_pc' = "extracted" /\ p_dict' = p_dict
     ELSE /\ p_pc' = "scan"
          /\ p_i' = Find(s, "{")
          /\ p_st' = ScanStart
          /\ UNCHANGED <<p_found, p_dict>>

\* _extract_first_json is called on the response text
PExtract ==
  /\ p_pc = "text"
  /\ ScanBegin("extract", p_text)
  /\ UNCHANGED <<p_text, h_parts, p_n, p_out, gvars, bvars, svars, shared, registry>>

\* One iteration of the loop of _extract_first_json (generate_api.py:136-161)
PScanStep ==
  /\ p_pc = "scan"
  /\ p_i <= Len(Scanned)
  /\ IF ScanReturns(Scanned[p_i], p_st)
     THEN ScanDone(Text(SubSeq(Scanned, Find(Scanned, "{"), p_i)))
     ELSE /\ p_st' = ScanStep(Scanned[p_i], p_st)
          /\ p_i' = p_i + 1
          /\ UNCHANGED <<p_pc, p_found, p_dict>>
  /\ UNCHANGED <<p_call, p_text, h_parts, p_n, p_out, gvars, bvars, svars, shared, registry>>

\* The loop ran off the end of the text: return None (generate_api.py:163-164)
PScanEnd ==
  /\ p_pc = "scan"
  /\ p_i > Len(Scanned)
  /\ ScanDone(NoText)
  /\ UNCHANGED <<p_call, p_text, h_parts, p_n, p_out, gvars, bvars, svars, shared, registry>>

\* _repair_incomplete_json applied to the response text
PRepair ==
  /\ p_pc = "text"
  /\ p_pc' = "repaired"
  /\ p_dict' = _repair_incomplete_json(p_text)
  /\ UNCHANGED <<p_call, p_i, p_st, p_text, h_parts, p_found, p_n, p_out,
                 gvars, bvars, svars, shared, registry>>

\* _try_parse_response is called on the response text (generate_api.py:189-218):
\* None for a blank text, the dict of the cleaned text when that decodes,
\* else _extract_first_json is called on the cleaned text
PParse ==
  /\ p_pc = "text"
  /\ IF Blank(p_text)
     THEN /\ p_pc' = "parsed"
          /\ p_dict' = NoDict
          /\ UNCHANGED <<p_call, p_i, p_st, p_found>>
     ELSE \E direct \in {LoadsDict(Cleaned(p_text))} :
            IF ~ direct.none
            THEN /\ p_pc' = "parsed"
                 /\ p_dict' = direct
                 /\ UNCHANGED <<p_call, p_i, p_st, p_found>>
            ELSE ScanBegin("parse", Cleaned(p_text))
  /\ UNCHANGED <<p_text, h_parts, p_n, p_out, gvars, bvars, svars, shared, registry>>

\* _validate_output applied to the parsed dict
PValidate(n) ==
  /\ p_pc = "parsed"
  /\ ~ p_dict.none
  /\ p_pc' = "validated"
  /\ p_n' = n
  /\ p_out' = _validate_output(p_dict.val, n)
  /\ UNCHANGED <<p_call, p_i, p_st, p_text, h_parts, p_found, p_dict,
                 gvars, bvars, svars, shared, registry>>

PInit ==
  /\ GIdle
  /\ BIdle
  /\ SIdle
  /\ disk = [f \in Files |-> Table(<<Row("s", "e", "", "")>>)]
  /\ h_atstart = disk
  /\ \E parts \in Inputs :
       /\ h_parts = parts
       /\ p_text = Whole(parts)
  /\ p_pc = "text"
  /\ p_call = ""
  /\ p_i = 0
  /\ p_st = ScanStart
  /\ p_found = NoText
  /\ p_dict = NoDict
  /\ p_n = 0
  /\ p_out = [raised |-> FALSE, val |-> <<>>]

PNext ==
  \/ PExtract
  \/ PScanStep
  \/ PScanEnd
  \/ PRepair
  \/ PParse
  \/ \E n \in (-1)..MaxN : PValidate(n)

GInit ==
  /\ SIdle
  /\ PIdle
  /\ GIdle
  /\ BIdle
  /\ disk = [f \in Files |-> Table(<<Row("s", "e", "", "")>>)]
  /\ h_atstart = disk

BInit ==
  /\ SIdle
  /\ PIdle
  /\ GIdle
  /\ BIdle
  /\ \E rows \in SeqsUpTo(InitRows, MaxRows) :
       disk = [f \in Files |-> IF f = "f1" THEN Table(rows)
                               ELSE Table(<<Row("s", "e", "", "")>>)]
  /\ h_atstart = disk

\* The rows of the table file the stores work on: not yet processed,
\* processed, bearing an answer only, and a row of an uploaded file
\* (app.py:150-151 stores the upload as it is) whose translation is the
\* text N/A
StoreRows ==
  { Row("s", "e", "", ""), Row("s", "e", "t1", "t1"), Row("s", "e", "", "t1"),
    Row("s", "N/A", "", "") }

\* The table file with `rows`, and the stores constructed over it
SInitFile(rows) ==
  /\ GIdle
  /\ PIdle
  /\ BIdle
  /\ registry = Files
  /\ disk = [f \in Files |-> Table(<<Row("s", "e", "", "")>>)]
  /\ h_atstart = disk
  /\ fs_path = [p \in Paths |-> IF p = "csv" THEN 1 ELSE 0]
  /\ fs_data = [i \in 1..NInodes |->
                  IF i = 1 THEN to_csv(Table(rows)) ELSE EmptyFile]
  /\ stores = [s \in Stores |-> [pc |-> "idle", op |-> "",
                                  df |-> read_csv(to_csv(Table(rows))),
                                  fd |-> 0, pos |-> 0]]
  /\ n_ops = 0
  /\ h_op = NoOp
  /\ h_written = {to_csv(Table(rows))}
  /\ h_upd = [s \in Stores |-> NoUpdate]

\* Each store is an instance of its own
SInitWith(rows) == SInitFile(rows) /\ shared = FALSE

\* One instance constructed over the table file, used by two threads
SInitShared ==
  /\ SInitFile(<<Row("s", "e", "", ""), Row("s", "e", "", "")>>)
  /\ shared = TRUE

SInit == \E rows \in SeqsUpTo(StoreRows, MaxRows) : SInitWith(rows)

SInit2 == SInitWith(<<Row("s", "e", "t1", "t1"), Row("s", "e", "", "")>>)

\* The payloads given to update_row_with_qas
StorePayloads ==
  { [k \in {"q_en", "a_en"} |-> List(<<"t1">>)],
    [k \in {"q_en", "a_en"} |-> List(<<IF k = "a_en" THEN "N/A" ELSE "t1">>)],
    [k \in {"q_en", "a_en"} |->
       List(<<"t2", IF k = "a_en" THEN NumCell ELSE "t3">>)],
    <<>> }

\* One step of store s
StoreStep(s) ==
  \/ Load(s)
  \/ \E idx \in (-1)..MaxRows, payload \in StorePayloads :
       UpdateBegin(s, idx, payload)
  \/ \E count \in 0..MaxQa : EnsureBegin(s, count)
  \/ WriteLine(s)
  \/ Replace(s)
  \/ Interrupt(s)
  \/ \E idx \in (-1)..MaxRows : Query(s, idx)

SNext1 == StoreStep(1)

SNext2 == \E s \in Stores : StoreStep(s)

\* What thread s writes: its own text, into its own row (row s - 1)
ThreadPayload(s) == [k \in {"q_en", "a_en"} |-> List(<<Txt[s]>>)]

\* One step of thread s on the shared instance
ThreadStep(s) ==
  \/ Load(s)
  \/ UpdateBegin(s, s - 1, ThreadPayload(s))
  \/ \E count \in 0..MaxQa : EnsureBegin(s, count)
  \/ WriteLine(s)
  \/ Replace(s)

SNextShared == \E s \in Stores : ThreadStep(s)

\* One selected row of a save request
RowData(idx) == [id |-> idx, qa |-> [k \in {"q_en", "a_en"} |-> List(<<"t1">>)]]

\* The save requests: file ids with their selected rows
SaveRequests ==
  { <<[file_id |-> "f1", rows |-> <<RowData(0), RowData(1)>>]>>,
    <<[file_id |-> "f1", rows |-> <<RowData(MaxRows), RowData(0)>>]>>,
    <<[file_id |-> "fx", rows |-> <<RowData(0)>>],
      [file_id |-> "f2", rows |-> <<RowData(0)>>]>>,
    <<[file_id |-> "fx", rows |-> <<RowData(0), RowData(1)>>],
      [file_id |-> "f1", rows |-> <<RowData(0)>>]>> }

\* The rows of a request whose write raises
FailSets == SUBSET (1..MaxFail)

SaveNext ==
  \/ \E ids \in FileIdLists, v \in Variants : StartBatch(ids, v, 1)
  \/ \E req \in SaveRequests, fail \in FailSets : ProcessSaveById(req, fail)
  \/ \E req \in SaveRequests, fail \in FailSets : ProcessSaveRows(req, fail)

BatchStep ==
  \/ TaskStart
  \/ \E readable \in BOOLEAN : OpenFile(readable)
  \/ \E healthy \in BOOLEAN, m \in 0..MaxQa : ProcessRow(healthy, m)
  \/ FinishFile
  \/ \E io_ok \in BOOLEAN : UpdateMetadata(io_ok)
  \/ Finish

SaveStep ==
  \E f \in Files, idx \in 0..(MaxRows - 1), payload \in SavePayloads :
    SaveFileRow(f, idx, payload)

BNext ==
  \/ \E ids \in FileIdLists, v \in Variants, n \in 0..MaxQa : StartBatch(ids, v, n)
  \/ BatchStep

BSNext ==
  \/ BNext
  \/ SaveStep

\* A batch, with files deleted by other requests at any moment
BDNext ==
  \/ BNext
  \/ FileSkip
  \/ \E f \in Files : delete_file(f)

\* One call of generate_for_row
SpecGen == GInit /\ [][GNext]_vars

\* The ResponseParser on one response text
SpecParse == PInit /\ [][PNext]_vars

\* One batch over the table files
SpecBatch == BInit /\ [][BNext]_vars

\* The background task is scheduled until it ends
SpecBatchFair == SpecBatch /\ WF_vars(BatchStep)

\* One batch, with rows saved by other requests at any moment
SpecBatchSave == BInit /\ [][BSNext]_vars

\* One batch, with files deleted by other requests at any moment
SpecBatchDelete == BInit /\ [][BDNext]_vars

\* The save requests of a batch process
SpecSave == BInit /\ [][SaveNext]_vars

\* One CSVStorage instance at work on a table file
SpecStore == SInit /\ [][SNext1]_vars

\* Two CSVStorage instances at work on the same table file
SpecStore2 == SInit2 /\ [][SNext2]_vars

\* Two threads on one CSVStorage instance
SpecShared == SInitShared /\ [][SNextShared]_vars

----------------------------------------------------------------------------
\* Properties of generate_for_row (SpecGen)

\* The attempts that ended in failure after their retries
Failed == {i \in DOMAIN g_att : g_att[i].st = "failed"}

\* C1, as stated: when the health check passes and m of the n attempts fail,
\* generate_for_row returns without raising, each key has exactly n items
\* and the last n-m of them are the empty strings of the missing entries.
C1_MissingAreNMinusM ==
  /\ (g_healthy /\ g_n >= 1) => g_pc # "raised"
  /\ g_pc = "returned" =>
       \A k \in Keys :
         /\ Len(g_out[k].items) = g_n
         /\ \A p \in (Cardinality(Failed) + 1)..g_n : g_out[k].items[p] = ""

\* C1, amended: when the health check passes and m of the n attempts fail
\* (n >= 1), generate_for_row returns without raising, each key has exactly
\* n items, the first n-m are the items of the successful attempts and the
\* last m, the missing entries, are empty strings.
C1_PartialYield ==
  /\ (g_healthy /\ g_n >= 1) => g_pc # "raised"
  /\ g_pc = "returned" =>
       \A k \in Keys :
         /\ g_out[k].list
         /\ Len(g_out[k].items) = g_n
         /\ SubSeq(g_out[k].items, 1, g_n - Cardinality(Failed))
              = g_results[k].items
         /\ \A p \in (g_n - Cardinality(Failed) + 1)..g_n :
              g_out[k].items[p] = ""

\* A call of three attempts returned after exactly one of them failed.
C1_Witness ==
  /\ g_pc = "returned"
  /\ g_n = 3
  /\ Cardinality(Failed) = 1
  /\ g_out["q_en"].items[1] # ""

\* C10, as stated: generate_for_row raises if and only if the health check
\* fails, for every requested n, and then no attempt was dispatched and no
\* generate request was sent.
C10_RaisesIffUnhealthy ==
  g_pc # "idle" =>
    /\ g_pc = "raised" <=> ~ g_healthy
    /\ g_pc = "raised" => (g_requests = 0 /\ g_att = NoAttempts)

\* C10, amended: for every requested n >= 1, generate_for_row raises if and
\* only if the health check fails, and then no attempt was dispatched and no
\* generate request was sent.
C10_RaisesIffUnhealthyForPositiveN ==
  (g_pc # "idle" /\ g_n >= 1) =>
    /\ g_pc = "raised" <=> ~ g_healthy
    /\ g_pc = "raised" => (g_requests = 0 /\ g_att = NoAttempts)

\* A call with n >= 1 raised on a failed health check.
C10_Witness == g_pc = "raised" /\ g_n >= 1 /\ ~ g_healthy

\* C17: one call of _generate_single_qa sends at most MAX_RETRIES requests;
\* it sends a request only while it has neither returned nor raised, returns
\* at the first request whose response parses and validates, goes on after a
\* failed request while attempts remain, and after MAX_RETRIES failed
\* requests raises the error of the last one.
C17_Retries ==
  /\ [](\A i \in DOMAIN g_att :
          /\ g_att[i].tries <= MAX_RETRIES
          /\ g_att[i].st = "running" => g_att[i].tries < MAX_RETRIES
          /\ g_att[i].st = "failed" =>
                (g_att[i].tries = MAX_RETRIES /\ g_att[i].last_err # ""))
  /\ [][\A i \in (DOMAIN g_att) \cap (DOMAIN g_att') :
          g_att'[i] # g_att[i] =>
            /\ g_att[i].st = "running"
            /\ g_att'[i].tries = g_att[i].tries + 1
            /\ g_requests' = g_requests + 1
            /\ g_att'[i].st = "ok" <=> g_att'[i].last_err = ""
            /\ g_att'[i].last_err # "" =>
                 g_att'[i].st = IF g_att'[i].tries < MAX_RETRIES
                                THEN "running" ELSE "failed"]_vars

\* One attempt raised after MAX_RETRIES failed requests, another returned
\* at its second request.
C17_Witness ==
  \E i, j \in DOMAIN g_att :
    /\ g_att[i].st = "failed" /\ g_att[i].tries = MAX_RETRIES
    /\ g_att[j].st = "ok" /\ g_att[j].tries = 2

\* The attempts that returned a dict and were yielded by as_completed
Merged == {i \in g_collected : g_att[i].st = "ok"}

\* C18: an attempt whose requests all failed has used up its retries and
\* adds nothing to the merged result; every attempt that succeeded adds its
\* one item per key, whatever the other attempts did, and the item is in the
\* returned result.
C18_FailedSlotDropped ==
  /\ \A i \in DOMAIN g_att :
       g_att[i].st = "failed" => g_att[i].tries = MAX_RETRIES
  /\ \A k \in Keys :
       /\ Len(g_results[k].items) = Cardinality(Merged)
       /\ \A i \in Merged :
            /\ Len(g_att[i].out[k].items) = 1
            /\ \E p \in 1..Len(g_results[k].items) :
                 g_results[k].items[p] = g_att[i].out[k].items[1]
            /\ g_pc = "returned" =>
                 \E p \in 1..Cardinality(Merged) :
                   g_out[k].items[p] = g_att[i].out[k].items[1]

\* A call of three attempts returned with the items of two of them after
\* the third ended on an unparseable response.
C18_Witness ==
  /\ g_pc = "returned"
  /\ g_n = 3
  /\ \E i \in DOMAIN g_att :
       /\ g_att[i].st = "failed" /\ g_att[i].last_err = "parse"
       /\ \A j \in (DOMAIN g_att) \ {i} : g_att[j].st = "ok"
  /\ g_out["q_en"].items[1] # "" /\ g_out["q_en"].items[2] # ""
  /\ g_out["q_en"].items[3] = ""

\* C28: in _generate_single_qa nothing is slept before the first request,
\* the sleep after failed request number a is RETRY_BACKOFF * 2^(a-1) when
\* a < MAX_RETRIES, nothing is slept after the last failed request or after
\* a successful one, and a call whose requests all fail has slept
\* RETRY_BACKOFF * (2^(MAX_RETRIES-1) - 1) in all.
C28_Backoff ==
  /\ [](\A i \in DOMAIN g_att :
          /\ g_att[i].tries = 0 => g_att[i].slept = 0
          /\ g_att[i].st = "failed" =>
               g_att[i].slept = RETRY_BACKOFF * (2 ^ (MAX_RETRIES - 1) - 1))
  /\ [][\A i \in (DOMAIN g_att) \cap (DOMAIN g_att') :
          g_att'[i] # g_att[i] =>
            g_att'[i].slept - g_att[i].slept =
              IF g_att'[i].last_err # "" /\ g_att'[i].tries < MAX_RETRIES
              THEN RETRY_BACKOFF * 2 ^ (g_att'[i].tries - 1)
              ELSE 0]_vars

\* An attempt raised after it slept after its first and second request; an
\* other returned at its first request without sleeping.
C28_Witness ==
  \E i, j \in DOMAIN g_att :
    /\ g_att[i].st = "failed" /\ g_att[i].slept = 3 * RETRY_BACKOFF
    /\ g_att[j].st = "ok" /\ g_att[j].tries = 1 /\ g_att[j].slept = 0

\* C29: generate_for_row dispatches exactly n attempts, which run side by
\* side; it validates and returns only when all n have settled, succeeded or
\* failed, and after the return nothing is added to the result.
C29_ReturnsAfterAllSettled ==
  /\ [](/\ g_pc = "running" => DOMAIN g_att = 1..g_n
        /\ g_pc = "returned" =>
             /\ DOMAIN g_att = 1..g_n
             /\ g_collected = 1..g_n
             /\ \A i \in 1..g_n : g_att[i].st \in {"ok", "failed"})
  /\ [][g_pc = "returned" =>
          (g_out' = g_out /\ g_results' = g_results /\ g_att' = g_att)]_vars

\* All three attempts of a call were in flight at once, each with a request
\* sent; and a call of three attempts has returned.
C29_InFlight ==
  /\ g_pc = "running"
  /\ g_n = 3
  /\ \A i \in 1..3 : g_att[i].st = "running" /\ g_att[i].tries >= 1

C29_Witness ==
  /\ g_pc = "returned"
  /\ g_n = 3
  /\ \E i \in 1..3 : g_att[i].st = "failed"
  /\ \E i \in 1..3 : g_att[i].st = "ok" /\ g_att[i].tries = 2

\* The ways to lay the merged attempts out over the first positions
Layouts == {f \in [1..Cardinality(Merged) -> Merged] :
              \A p, q \in 1..Cardinality(Merged) : f[p] = f[q] => p = q}

\* C30: in the result of generate_for_row the six entries at a position come
\* from one attempt, each successful attempt has exactly one position, and
\* the padding empty strings come after the positions of the attempts,
\* whatever the order in which the attempts completed.
C30_Aligned ==
  g_pc = "returned" =>
    /\ \E f \in Layouts :
         \A p \in 1..Cardinality(Merged) : \A k \in Keys :
           g_out[k].items[p] = g_att[f[p]].out[k].items[1]
    /\ \A k \in Keys : \A p \in (Cardinality(Merged) + 1)..g_n :
         g_out[k].items[p] = ""

\* A call returned the items of attempt 2 before those of attempt 1, and
\* padding for the failed attempt 3.
C30_Witness ==
  /\ g_pc = "returned"
  /\ g_n = 3
  /\ g_att[3].st = "failed"
  /\ \A k \in Keys :
       /\ g_out[k].items[1] = Txt[2]
       /\ g_out[k].items[2] = Txt[1]
       /\ g_out[k].items[3] = ""

----------------------------------------------------------------------------
\* Properties of the ResponseParser (SpecParse)

\* C21: whatever the response text, a validated output for n >= 1 holds a
\* list of exactly n items under each of the six keys.
C21_ExactlyN ==
  (p_pc = "validated" /\ p_n >= 1 /\ ~ p_out.raised) =>
    \A k \in Keys :
      /\ k \in DOMAIN p_out.val
      /\ p_out.val[k].list
      /\ Len(p_out.val[k].items) = p_n

\* An answer of two items per key behind narrative was cut to one item.
C21_Witness ==
  /\ p_pc = "validated"
  /\ p_n = 1
  /\ h_parts.body = SixKeys(2)
  /\ h_parts.head # <<>>
  /\ ~ p_out.raised
  /\ \A k \in Keys : p_out.val[k].items = <<Txt[1]>>

\* The list under key k of the parsed dict, cut or padded to n items
Fitted(k, n) ==
  IF Len(p_dict.val[k].items) >= n THEN SubSeq(p_dict.val[k].items, 1, n)
  ELSE p_dict.val[k].items \o Repeat("", n - Len(p_dict.val[k].items))

\* C25 as stated: with the six keys present _validate_output returns, for
\* every n, lists of exactly n items, and only a missing key makes it raise.
C25_OnlyMissingKeyRaises ==
  p_pc = "validated" =>
    /\ p_out.raised <=> \E k \in Keys : k \notin DOMAIN p_dict.val
    /\ ~ p_out.raised =>
         \A k \in Keys : /\ Len(p_out.val[k].items) = p_n
                         /\ p_out.val[k].items = Fitted(k, p_n)

\* C25: _validate_output raises exactly when one of the six keys is missing
\* or holds something that is not a list; otherwise, for n >= 0, each key
\* holds exactly n items: the first n of a longer list, a shorter list
\* right-padded with empty strings.
C25_Validation ==
  p_pc = "validated" =>
    /\ p_out.raised <=>
         \E k \in Keys : k \notin DOMAIN p_dict.val \/ ~ p_dict.val[k].list
    /\ (~ p_out.raised /\ p_n >= 0) =>
         \A k \in Keys : /\ p_out.val[k].list
                         /\ Len(p_out.val[k].items) = p_n
                         /\ p_out.val[k].items = Fitted(k, p_n)

\* Lists of two items were padded to three.
C25_Witness ==
  /\ p_pc = "validated"
  /\ p_n = 3
  /\ ~ p_out.raised
  /\ \A k \in Keys : /\ p_dict.val[k].items = <<Txt[1], Txt[2]>>
                      /\ p_out.val[k].items = <<Txt[1], Txt[2], "">>

\* All six keys are there, one holds a string: the validation raised.
C25_NotAList ==
  /\ p_pc = "validated"
  /\ Keys \subseteq DOMAIN p_dict.val
  /\ p_out.raised

\* C26: for narrative followed by a balanced object that holds a string
\* with an escaped quote and a brace or bracket in it, _extract_first_json
\* returns the object, from the first '{' to its closer; in its loop a
\* character inside a string leaves the depth alone and the character behind
\* a backslash changes nothing but the escape flag.
C26_ExtractSpan ==
  /\ []((p_pc = "extracted" /\ h_parts.family = "tricky") =>
          p_found = Text(h_parts.body))
  /\ [][(p_pc = "scan" /\ p_pc' = "scan") =>
          /\ p_i' = p_i + 1
          /\ (p_st.in_string \/ p_st.escape) => p_st'.depth = p_st.depth
          /\ p_st.escape => p_st' = [p_st EXCEPT !.escape = FALSE]]_vars

\* The object was found between narrative with a quote in it and a stray
\* closing brace.
C26_Witness ==
  /\ p_pc = "extracted"
  /\ h_parts.family = "tricky"
  /\ h_parts.head = <<"x", Quote, "]", Backslash, Space>>
  /\ h_parts.tail = <<"}">>
  /\ h_parts.body = ObjText(<<MemberText("a",
                        StrText(<<Backslash, Quote, "}", "{">>))>>)
  /\ p_found = Text(h_parts.body)

\* C27 as stated: an object that lost its last k closing characters
\* (k = 1, 2, 3) is repaired into text that decodes; text with no more
\* openings than closings is not repaired.
C27_RepairDecodes ==
  (p_pc = "repaired" /\ h_parts.family = "cut") =>
    /\ Imbalance(p_text) = h_parts.cut
    /\ h_parts.cut >= 1 => ~ p_dict.none
    /\ h_parts.cut = 0 => p_dict.none

\* What the repair does: it brings back the dict only when one closing
\* brace is missing.
RepairsOneBrace ==
  (p_pc = "repaired" /\ h_parts.family = "cut") =>
    (~ p_dict.none <=> (h_parts.cut = 1 /\ p_text \o <<"}">> = h_parts.body))

----------------------------------------------------------------------------
\* Properties of CSVStorage (SpecStore, SpecStore2)

\* C11: after update_row_with_qas(i, payload) returned true and the table
\* was reloaded from the file, the slot columns of row i hold the payload's
\* values (item p of key k in column k_p, every other slot column empty) and
\* every other row holds what it held before the update. Values are
\* compared by the text they are written with.
C11_RoundTrip ==
  (h_op.kind = "update" /\ h_op.ret = "true" /\ h_op.reloaded) =>
    LET df == stores[h_op.s].df
        was == h_op.before
        i == h_op.idx + 1
    IN /\ Len(df.rows) = Len(was.rows)
       /\ df.cols = was.cols \cup PayloadCols(h_op.arg)
       /\ \A c \in df.cols :
            ToCsvCell(df.rows[i].qa[c]) =
              IF c \in PayloadCols(h_op.arg)
              THEN ToCsvCell(h_op.arg[c[1]].items[c[2]]) ELSE ""
       /\ \A j \in (1..Len(df.rows)) \ {i} :
            /\ ToCsvCell(df.rows[j].sanskrit) = ToCsvCell(was.rows[j].sanskrit)
            /\ ToCsvCell(df.rows[j].english) = ToCsvCell(was.rows[j].english)
            /\ ToCsvCell(df.rows[j].tags) = ToCsvCell(was.rows[j].tags)
            /\ \A c \in df.cols :
                 ToCsvCell(df.rows[j].qa[c]) =
                   IF c \in was.cols THEN ToCsvCell(was.rows[j].qa[c]) ELSE ""

\* C22: ensure_headers(n) widens the schema and nothing else: when it has
\* returned the table file has every slot column of 1..n and every column it
\* had, each cell it had holds the text it held, and ensure_headers(n) on the
\* file as it is now writes the same file again.  (In h_op, idx is n.)
C22_Widening ==
  (h_op.kind = "ensure" /\ h_op.ret = "true") =>
    /\ headers_for_qa_count(h_op.idx) \subseteq CsvContent.cols
    /\ h_op.old.cols \subseteq CsvContent.cols
    /\ Len(CsvContent.rows) = Len(h_op.old.rows)
    /\ \A i \in 1..Len(h_op.old.rows) :
         /\ CsvContent.rows[i].sanskrit = h_op.old.rows[i].sanskrit
         /\ CsvContent.rows[i].english = h_op.old.rows[i].english
         /\ CsvContent.rows[i].tags = h_op.old.rows[i].tags
         /\ \A c \in h_op.old.cols :
              CsvContent.rows[i].qa[c] = h_op.old.rows[i].qa[c]
    /\ to_csv(ensure_headers(read_csv(CsvContent), h_op.idx)) = CsvContent

\* C24: operations that each construct their own store over one file do not
\* exclude one another: while one is inside the mutating section of
\* update_row_with_qas, another store over the same file can enter that
\* section of its own update, and can read its table.
C24_NotExcluded ==
  \A s, t \in Stores :
    (/\ s # t
     /\ Inside(s) /\ stores[s].op = "update"
     /\ stores[t].pc = "idle" /\ Len(stores[t].df.rows) > 0
     /\ n_ops < MaxOps) =>
      /\ ENABLED (/\ UpdateBegin(t, 0, [k \in {"q_en", "a_en"} |-> List(<<"t1">>)])
                  /\ Inside(t)')
      /\ ENABLED Query(t, 0)

\* Both stores are inside the mutating section of update_row_with_qas.
C24_Witness ==
  /\ \A s \in Stores : Inside(s) /\ stores[s].op = "update"
  /\ stores[1].fd # 0 /\ stores[2].fd # 0

\* A store read its table while the other was inside its update.
C24_ReadDuringWrite ==
  \E s, t \in Stores :
    /\ s # t
    /\ Inside(s) /\ stores[s].op = "update"
    /\ h_op.kind = "query" /\ h_op.s = t /\ h_op.n > 1

\* The table file holds in row s - 1 what thread s wrote
Landed(s) ==
  /\ Len(CsvContent.rows) >= s
  /\ \A k \in {"q_en", "a_en"} :
       /\ Col(k, 1) \in DOMAIN CsvContent.rows[s].qa
       /\ CsvContent.rows[s].qa[Col(k, 1)] = Txt[s]

\* C23: on one shared instance at most one thread is inside
\* update_row_with_qas, ensure_headers or reload at a time; so an update
\* that returns has its row in the table file, the row stays there whatever
\* the other thread does, and the file is the table in memory whenever no
\* thread is inside.
C23_Exclusive ==
  /\ [](/\ Cardinality({s \in Stores : Inside(s)}) <= 1
        /\ (\A s \in Stores : ~ Inside(s)) =>
             /\ fs_path["tmp"] = 0
             /\ CsvContent = to_csv(stores[1].df))
  /\ [][\A s \in Stores :
          /\ (Inside(s) /\ stores[s].op = "update" /\ ~ Inside(s)') => Landed(s)'
          /\ Landed(s) => Landed(s)'
          /\ (\E t \in Stores : t # s /\ Inside(t)) => stores'[s] = stores[s]]_vars

\* Both threads have updated their row; both rows are in the file.
C23_Witness ==
  /\ shared
  /\ n_ops = 2
  /\ \A s \in Stores : stores[s].pc = "idle" /\ Landed(s)

\* C12: update_row_with_qas(idx, payload) with idx < 0 or idx >= rowCount
\* returns false and changes neither the table in memory nor any file: the
\* table file is as it was, no staging file is written, no column is added.
C12_OutOfRangeRefused ==
  [][(h_op'.n # h_op.n /\ h_op'.kind = "update"
        /\ (h_op'.idx < 0 \/ h_op'.idx >= Len(stores[h_op'.s].df.rows))) =>
       /\ h_op'.ret = "false"
       /\ stores' = stores
       /\ fs_path' = fs_path
       /\ fs_data' = fs_data]_vars

\* An update at idx = rowCount was refused.
C12_Witness ==
  /\ h_op.kind = "update"
  /\ h_op.ret = "false"
  /\ h_op.idx = Len(h_op.before.rows)
  /\ h_op.arg # <<>>

\* C13: while one store updates the file (update_row_with_qas or
\* ensure_headers), also when it is cut off at any point, the table file
\* holds either the whole table of before the update or the whole table of
\* after it: the old one until os.replace has run, the new one from then on.
C13_OldOrNew ==
  /\ fs_path["csv"] # 0
  /\ Readable(CsvContent)
  /\ CsvContent \in h_written
  /\ h_op.kind # "none" =>
       /\ CsvContent \in {h_op.old, h_op.new}
       /\ h_op.ret \in {"pending", "interrupted"} => CsvContent = h_op.old
       /\ h_op.ret = "true" => CsvContent = h_op.new

\* An update was cut off between the writing of the staging file and the
\* replacement of the original: the staging file holds the whole new table.
C13_Witness ==
  /\ h_op.kind = "update"
  /\ h_op.ret = "interrupted"
  /\ h_op.new # h_op.old
  /\ fs_path["tmp"] # 0
  /\ fs_data[fs_path["tmp"]] = h_op.new

\* C14: with two stores writing the same file, the table file always holds
\* a complete table that one writer set out to write, and no writer is
\* still writing the file that is the table file.
C14_NoPartialFile ==
  /\ CsvContent \in h_written
  /\ \A s \in Stores :
       ~ (stores[s].pc = "staging" /\ stores[s].fd = fs_path["csv"])

\* C15: has_existing_qa_data(idx) is true exactly when idx is in range and
\* some slot column of row idx, question or answer, holds text that is not
\* blank.
C15_AnyQAColumn ==
  h_op.kind = "query" =>
    (h_op.ret = "true" <=>
       /\ h_op.idx >= 0 /\ h_op.idx < Len(h_op.before.rows)
       /\ \E c \in h_op.before.cols :
            NonBlank(h_op.before.rows[h_op.idx + 1].qa[c]))

----------------------------------------------------------------------------
\* Properties of the batch save operation (SpecSave)

\* C16: a batch save request is not aborted by an unknown file id or by a
\* failed row write: every selected row of a known file is attempted, the
\* response carries the saved and error counts, the saved count is the
\* number of successful writes and the error count is the number of unknown
\* file ids plus the number of failed row writes.
C16_SaveCounts ==
  h_save.handler # "" =>
    /\ h_save.http = 200
    /\ h_save.attempted = KnownRows(h_save.req, 1)
    /\ h_save.counts
    /\ h_save.saved = h_save.written
    /\ h_save.errors = h_save.unknown + h_save.failed

----------------------------------------------------------------------------
\* Properties of the batch orchestrator

\* C2: a row that holds non-empty QA data in the table when the batch starts
\* is never submitted to generate_for_row during that batch.
C2_NoResubmit == h_submit # NoSubmit => ~ h_submit.at_start

\* C3: at the moment the orchestrator submits row i to generate_for_row, the
\* table file holds no non-empty QA data for row i, also when the data was
\* saved after the batch opened the file. Stated for the question columns,
\* the QA data a store freshly constructed over the file would detect.
C3_NoSubmitOverSavedData == h_submit # NoSubmit => ~ h_submit.seen_on_disk

\* C4: every started batch eventually reaches completed or error, and once
\* it is in completed or error its status never changes again.
C4_Terminates ==
  /\ (status \in Running) ~> (status \in Terminal)
  /\ [][(status \in Terminal) => (status' = status)]_vars

\* A batch over two files ran to completed.
C4_Witness == status = "completed" /\ Len(file_ids) = 2 /\ processed_files = 2

\* C5: when a batch ends in error, every result object generated before the
\* fatal error, those of the file in process included, is in the batch's
\* results-by-file map.
C5_PartialResultsKept ==
  status = "error" =>
    \A i \in 1..Len(results) :
      /\ results[i].file_id \in DOMAIN st_results
      /\ results[i] \in Range(st_results[results[i].file_id])

\* The moves of a batch's overall status
StatusMoves ==
  {<<"none", "initializing">>, <<"none", "running">>,
   <<"initializing", "running">>, <<"running", "completed">>,
   <<"running", "error">>}

\* The moves of a file's progress status
FileMoves ==
  {<<"pending", "processing">>, <<"processing", "completed">>,
   <<"processing", "error">>}

\* C6: the overall status only moves initializing -> running -> completed or
\* error, and each file's progress status only moves pending -> processing
\* -> completed or error.
C6_OnlyForwardMoves ==
  [][/\ status' # status => <<status, status'>> \in StatusMoves
     /\ \A f \in (DOMAIN progress) \cap (DOMAIN progress') :
          progress'[f].status # progress[f].status =>
            <<progress[f].status, progress'[f].status>> \in FileMoves]_vars

\* The batch steps in which processing a row raised an exception
RowExceptions == {"preview_error", "row_fault", "generate_escaped"}

\* C7: an exception raised while a single row is processed (fetching it,
\* building its preview, checking existing QA, generating) is caught at the
\* row boundary: the batch goes on with the next row and its status does not
\* become error.
C7_RowFaultsIsolated ==
  h_event.kind \in RowExceptions =>
    /\ status = "running"
    /\ b_pc = "row"
    /\ row_idx = h_event.idx + 1

\* The batch steps in which an exception escaped to the except clause
Escapes == {"open_failed", "preview_error", "generate_escaped", "metadata_failed"}

\* C8: when an exception escapes the per-row protection, the batch status
\* becomes error with a non-empty message, every file that is processing
\* becomes error and every other file keeps its status.
C8_BatchFault ==
  [][(b_pc # "done" /\ h_event'.kind \in Escapes) =>
       /\ status' = "error"
       /\ error_message' # ""
       /\ DOMAIN progress' = DOMAIN progress
       /\ \A f \in DOMAIN progress :
            progress'[f].status = IF progress[f].status = "processing"
                                  THEN "error" ELSE progress[f].status]_vars

\* A batch ended in error with one file completed and the other in error.
C8_Witness ==
  /\ status = "error"
  /\ h_event.kind \in Escapes
  /\ \E f, g \in DOMAIN progress :
       progress[f].status = "completed" /\ progress[g].status = "error"

\* C9: when the health check fails for a row, no result is recorded for the
\* row, the batch goes on with the next row and stays running.
C9_UnavailableRowSkipped ==
  (h_event.kind \in {"generated", "row_fault", "generate_escaped"}
     /\ ~ h_event.healthy) =>
    /\ h_event.kind = "row_fault"
    /\ \A i \in 1..Len(results) : results[i].id # h_event.idx
    /\ status = "running"
    /\ b_pc = "row"
    /\ row_idx = h_event.idx + 1

\* A batch that met a failed health check ended in completed.
C9_Witness == status = "completed" /\ h_unavailable

\* The rows of a table that bear non-empty QA data
RowsBearingQA(df) == {i \in 0..(Len(df.rows) - 1) : BearsQA(df, i)}

\* C20: after a batch has marked a file completed and refreshed its
\* metadata, and after a save to a file, the file record's processed count
\* is the number of rows of the file that bear non-empty QA data.
C20_ProcessedCount ==
  h_event.kind \in {"metadata_saved", "saved"} =>
    processed_count[h_event.f] = Cardinality(RowsBearingQA(disk[h_event.f]))

\* The batch steps that process one row
RowSteps == {"preview_error", "skipped", "missing_text", "generated",
             "row_fault", "generate_escaped"}

----------------------------------------------------------------------------
\* C31: a row whose fan-out had some (or all) of its n attempts fail while
\* the health check passed is appended to the file's result list as a
\* generated row whose every key carries exactly n items, the items of the
\* failed attempts being empty strings at the end; it is not a row fault and
\* the batch goes on.
C31_PartialRowAppended ==
  (/\ h_event.kind \in {"generated", "row_fault", "generate_escaped"}
   /\ h_event.healthy
   /\ h_event.failed >= 1) =>
    /\ h_event.kind = "generated"
    /\ status = "running" /\ b_pc = "row"
    /\ row_idx = h_event.idx + 1
    /\ Len(results) >= 1
    /\ LET r == results[Len(results)]
       IN /\ r.id = h_event.idx
          /\ r.file_id = h_event.f
          /\ DOMAIN r.qas = Keys
          /\ \A k \in Keys :
               /\ r.qas[k].list
               /\ Len(r.qas[k].items) = qa_count
               /\ \A i \in 1..qa_count :
                    (r.qas[k].items[i] = "") <=> (i > qa_count - h_event.failed)

\* Two rows of one file were generated with two attempts each: all attempts
\* of the first row failed, one attempt of the second.
C31_Witness ==
  /\ h_event.kind = "generated" /\ h_event.healthy /\ h_event.failed = 1
  /\ qa_count = 2
  /\ Len(results) = 2
  /\ results[1].qas["q_en"].items = <<"", "">>
  /\ results[2].qas["q_en"].items = <<"t1", "">>

----------------------------------------------------------------------------
\* C33: no step of a batch run, from its submission to its terminal state,
\* changes a table file: what it generates goes to the result list and the
\* results map only, and a table file changes only in a step of a save
\* request, which moves nothing of the batch.
C33_BatchWritesNoTable ==
  [][/\ (status' # status \/ b_pc' # b_pc \/ row_idx' # row_idx
            \/ file_idx' # file_idx \/ results' # results
            \/ st_results' # st_results \/ progress' # progress) =>
          disk' = disk
     /\ disk' # disk =>
          /\ h_event'.kind = "saved"
          /\ n_saves' = n_saves + 1
          /\ disk' = [disk EXCEPT ![h_event'.f] = disk'[h_event'.f]]]_vars

\* A batch ended with a generated result for row 0 of f1 in its results map
\* while the file is as it was at submission, the row still without QA data.
C33_Witness ==
  /\ status = "completed"
  /\ "f1" \in DOMAIN st_results
  /\ Len(st_results["f1"]) = 1
  /\ st_results["f1"][1].qas["q_en"].items = <<"t1">>
  /\ disk = h_atstart
  /\ ~ BearsQA(disk["f1"], 0)

----------------------------------------------------------------------------
\* C35: whenever the batch's status is completed, every file of its progress
\* map is completed with as many processed rows as total rows and the
\* processed-files counter equals the total-files counter; at every moment
\* of the run no file's processed counter exceeds its total, and no step
\* lowers a file's processed counter.
C35_CompletedMeansAllDone ==
  /\ [](status = "completed" =>
          /\ \A f \in DOMAIN progress :
               /\ progress[f].status = "completed"
               /\ progress[f].processed = progress[f].total
          /\ processed_files = Len(file_ids))
  /\ [](\A f \in DOMAIN progress : progress[f].processed <= progress[f].total)
  /\ [][\A f \in (DOMAIN progress) \cap (DOMAIN progress') :
          progress'[f].processed >= progress[f].processed]_vars

----------------------------------------------------------------------------
\* The table file holds in row idx what update_row_with_qas(idx, payload)
\* leaves there: writing the payload into the file's table again would give
\* the same columns and the same row.
Holds(content, idx, payload) ==
  /\ Readable(content)
  /\ LET df == read_csv(content)
         again == read_csv(to_csv(update_row_with_qas(df, idx, payload).df))
     IN /\ idx >= 0 /\ idx < Len(df.rows)
        /\ again.cols = df.cols
        /\ again.rows[idx + 1] = df.rows[idx + 1]

\* C34: when two updates of different rows of one file, each called on a
\* store instance of its own, have both returned True, the table file
\* holds the payload of both rows, whatever the interleaving was.
C34_NoLostUpdate ==
  \A s, t \in Stores :
    (/\ ~ shared /\ s # t
     /\ h_upd[s].ret = "true" /\ h_upd[t].ret = "true"
     /\ h_upd[s].idx # h_upd[t].idx) =>
      Holds(CsvContent, h_upd[s].idx, h_upd[s].arg)

----------------------------------------------------------------------------
\* C32: an update_row_with_qas or ensure_headers call that returned leaves
\* the table file with as many rows as it had, every row at its index with
\* the source and translation text it had, and every column it had; the
\* tag of a row is another one only in the row that an update wrote with a
\* payload that contains a tag.
C32_Frame ==
  (h_op.kind \in {"update", "ensure"} /\ h_op.ret = "true") =>
    /\ Len(CsvContent.rows) = Len(h_op.old.rows)
    /\ h_op.old.cols \subseteq CsvContent.cols
    /\ \A i \in 1..Len(h_op.old.rows) :
         /\ CsvContent.rows[i].sanskrit = h_op.old.rows[i].sanskrit
         /\ CsvContent.rows[i].english = h_op.old.rows[i].english
         /\ CsvContent.rows[i].tags # h_op.old.rows[i].tags =>
              /\ h_op.kind = "update"
              /\ i = h_op.idx + 1
              /\ "tags" \in DOMAIN h_op.arg

====
